---- MODULE Spec2Model ----
(***************************************************************************)
(* MARC 65X subject-heading builder (src/marc_65x_builder.py).             *)
(*                                                                         *)
(* Python strings are modelled as sequences of one-character strings, so   *)
(* that lower(), strip(), split("--"), the substring tests and the         *)
(* regular expressions of the source are computed character by character.  *)
(***************************************************************************)
EXTENDS Integers, Sequences, FiniteSets, TLC

VARIABLES authority, pc, result, builder, calls, weaviate, searcher, request

vars == <<authority, pc, result, builder, calls, weaviate, searcher, request>>

(***************************************************************************)
(* Characters and the str methods the builder uses.                        *)
(***************************************************************************)
Digits == {"0", "1", "2", "3", "4", "5", "6", "7", "8", "9"}

LowerLetters ==
    {"a", "b", "c", "d", "e", "f", "g", "h", "i", "j", "k", "l", "m",
     "n", "o", "p", "q", "r", "s", "t", "u", "v", "w", "x", "y", "z"}

\* str.lower() on the upper-case letters; every other character is kept.
ToLower ==
    ("A" :> "a") @@ ("B" :> "b") @@ ("C" :> "c") @@ ("D" :> "d") @@
    ("E" :> "e") @@ ("F" :> "f") @@ ("G" :> "g") @@ ("H" :> "h") @@
    ("I" :> "i") @@ ("J" :> "j") @@ ("K" :> "k") @@ ("L" :> "l") @@
    ("M" :> "m") @@ ("N" :> "n") @@ ("O" :> "o") @@ ("P" :> "p") @@
    ("Q" :> "q") @@ ("R" :> "r") @@ ("S" :> "s") @@ ("T" :> "t") @@
    ("U" :> "u") @@ ("V" :> "v") @@ ("W" :> "w") @@ ("X" :> "x") @@
    ("Y" :> "y") @@ ("Z" :> "z")

UpperLetters == DOMAIN ToLower

\* The characters str.strip() removes.
Whitespace == {" ", "\t", "\n", "\r"}

\* The characters the regular expression class \w matches.
WordChars == LowerLetters \cup UpperLetters \cup Digits \cup {"_"}

lower(s) ==
    [i \in 1..Len(s) |-> IF s[i] \in UpperLetters THEN ToLower[s[i]] ELSE s[i]]

\* s[from:] of Python with a 1-based index.
Tail_(s, from) == SubSeq(s, from, Len(s))

strip(s) ==
    LET keep  == {i \in 1..Len(s) : s[i] \notin Whitespace}
        first == CHOOSE i \in keep : \A j \in keep : i <= j
        last  == CHOOSE i \in keep : \A j \in keep : j <= i
    IN  IF keep = {} THEN <<>> ELSE SubSeq(s, first, last)

\* "sub in s"
Contains(s, sub) ==
    \E i \in 1..(Len(s) - Len(sub) + 1) : SubSeq(s, i, i + Len(sub) - 1) = sub

\* s.find(sep) as a 1-based index, 0 when sep does not occur.
Find(s, sep) ==
    LET hits == {i \in 1..(Len(s) - Len(sep) + 1) :
                     SubSeq(s, i, i + Len(sep) - 1) = sep}
    IN  IF hits = {} THEN 0 ELSE CHOOSE i \in hits : \A j \in hits : i <= j

\* s.split(sep): left to right, non-overlapping; always at least one part.
RECURSIVE split(_, _)
split(s, sep) ==
    LET at == Find(s, sep)
    IN  IF at = 0
        THEN <<s>>
        ELSE <<SubSeq(s, 1, at - 1)>> \o split(Tail_(s, at + Len(sep)), sep)

(***************************************************************************)
(* Regular expressions: a pattern is a sequence of items, each a literal   *)
(* string, a run of \d with a repetition range, or the assertion \b.       *)
(***************************************************************************)
Lit(s) == [t |-> "lit", s |-> s, min |-> 0, max |-> 0, open |-> FALSE]

\* \d{min,max}
DigitRun(min, max) ==
    [t |-> "digits", s |-> <<>>, min |-> min, max |-> max, open |-> FALSE]

\* \d+
DigitPlus == [t |-> "digits", s |-> <<>>, min |-> 1, max |-> 1, open |-> TRUE]

WordBoundary == [t |-> "b", s |-> <<>>, min |-> 0, max |-> 0, open |-> FALSE]

\* \b at position i: exactly one of s[i-1], s[i] is a word character.
IsBoundary(s, i) ==
    LET before == i > 1 /\ s[i - 1] \in WordChars
        after  == i <= Len(s) /\ s[i] \in WordChars
    IN  before # after

\* The pattern items k.. match s from position i on.
RECURSIVE MatchAt(_, _, _, _)
MatchAt(p, k, s, i) ==
    IF k > Len(p)
    THEN TRUE
    ELSE LET it == p[k]
         IN  CASE it.t = "lit" ->
                    /\ i + Len(it.s) - 1 <= Len(s)
                    /\ SubSeq(s, i, i + Len(it.s) - 1) = it.s
                    /\ MatchAt(p, k + 1, s, i + Len(it.s))
               [] it.t = "digits" ->
                    LET room == Len(s) - i + 1
                        most == IF it.open \/ it.max > room
                                THEN room ELSE it.max
                    IN  \E n \in it.min..most :
                            /\ \A j \in i..(i + n - 1) : s[j] \in Digits
                            /\ MatchAt(p, k + 1, s, i + n)
               [] it.t = "b" ->
                    /\ IsBoundary(s, i)
                    /\ MatchAt(p, k + 1, s, i)

\* re.search(p, s) is not None
re_search(p, s) == \E i \in 1..(Len(s) + 1) : MatchAt(p, 1, s, i)

(***************************************************************************)
(* MARC65XBuilder: the tables and the pure helpers.                        *)
(***************************************************************************)
\* Optional[str]
DigitSeq == <<"0", "1", "2", "3", "4", "5", "6", "7", "8", "9">>

\* A label or vocabulary that is Python's None instead of a str.  Every str
\* is a sequence of one-character strings, so this value is none of them.
Missing == <<"None">>

\* The decimal digits of a natural number.
RECURSIVE decimal(_)
decimal(n) ==
    IF n < 10 THEN <<DigitSeq[n + 1]>>
    ELSE decimal(n \div 10) \o <<DigitSeq[(n % 10) + 1]>>

\* Variant: one decimal, f"{score:.1f}".
format_1f(hundredths) ==
    decimal(hundredths \div 100) \o <<".">>
        \o <<DigitSeq[((hundredths \div 10) % 10) + 1]>>

\* f"{score:.2f}" for a score given in hundredths (92 is 0.92).
format_2f(hundredths) ==
    decimal(hundredths \div 100) \o <<".">>
        \o <<DigitSeq[((hundredths \div 10) % 10) + 1]>>
        \o <<DigitSeq[(hundredths % 10) + 1]>>

None == [some |-> FALSE, value |-> <<>>]

Some(s) == [some |-> TRUE, value |-> s]

Subfield(code, value) == [code |-> code, value |-> value]

\* The fallback of VOCAB_TO_MARC.get(vocab, {"ind2": "7", "subfield2": vocab}).
FallbackConfig(vocab) == [ind2 |-> "7", subfield2 |-> Some(vocab)]

\* Variant: the table lacks its "lcsh" entry.
VOCAB_TO_MARC_without_lcsh(vocab) ==
    IF vocab = <<"f", "a", "s", "t">> THEN [ind2 |-> "7", subfield2 |-> Some(<<"f", "a", "s", "t">>)]
    ELSE FallbackConfig(vocab)

VOCAB_TO_MARC(vocab) ==
    IF vocab = <<"l", "c", "s", "h">> THEN [ind2 |-> "0", subfield2 |-> None]
    ELSE IF vocab = <<"f", "a", "s", "t">> THEN [ind2 |-> "7", subfield2 |-> Some(<<"f", "a", "s", "t">>)]
    ELSE FallbackConfig(vocab)

geographic_patterns ==
    << <<WordBoundary, Lit(<<"c", "o", "u", "n", "t", "r", "y">>), WordBoundary>>,
       <<WordBoundary, Lit(<<"c", "i", "t", "y">>), WordBoundary>>,
       <<WordBoundary, Lit(<<"r", "e", "g", "i", "o", "n">>), WordBoundary>>,
       <<WordBoundary, Lit(<<"c", "h", "i", "n", "a">>), WordBoundary>>,
       <<WordBoundary, Lit(<<"j", "a", "p", "a", "n">>), WordBoundary>>,
       <<WordBoundary, Lit(<<"u", "n", "i", "t", "e", "d", " ", "s", "t", "a", "t", "e", "s">>), WordBoundary>>,
       <<WordBoundary, Lit(<<"e", "u", "r", "o", "p", "e">>), WordBoundary>>,
       <<WordBoundary, Lit(<<"a", "s", "i", "a">>), WordBoundary>>,
       <<WordBoundary, Lit(<<"a", "f", "r", "i", "c", "a">>), WordBoundary>> >>

\* Variant: the genre patterns are closed by \b as the geographic ones are.
genre_patterns_whole_word ==
    << <<WordBoundary, Lit(<<"c", "o", "n", "f", "e", "r", "e", "n", "c", "e">>), WordBoundary>>,
       <<WordBoundary, Lit(<<"h", "a", "n", "d", "b", "o", "o", "k">>), WordBoundary>>,
       <<WordBoundary, Lit(<<"m", "a", "n", "u", "a", "l">>), WordBoundary>>,
       <<WordBoundary, Lit(<<"e", "s", "s", "a", "y">>), WordBoundary>>,
       <<WordBoundary, Lit(<<"p", "a", "p", "e", "r">>), WordBoundary>>,
       <<WordBoundary, Lit(<<"p", "r", "o", "c", "e", "e", "d", "i", "n", "g">>), WordBoundary>>,
       <<WordBoundary, Lit(<<"t", "e", "x", "t", "b", "o", "o", "k">>), WordBoundary>>,
       <<WordBoundary, Lit(<<"g", "u", "i", "d", "e">>), WordBoundary>> >>

genre_patterns ==
    << <<WordBoundary, Lit(<<"c", "o", "n", "f", "e", "r", "e", "n", "c", "e">>)>>,
       <<WordBoundary, Lit(<<"h", "a", "n", "d", "b", "o", "o", "k">>)>>,
       <<WordBoundary, Lit(<<"m", "a", "n", "u", "a", "l">>)>>,
       <<WordBoundary, Lit(<<"e", "s", "s", "a", "y">>)>>,
       <<WordBoundary, Lit(<<"p", "a", "p", "e", "r">>)>>,
       <<WordBoundary, Lit(<<"p", "r", "o", "c", "e", "e", "d", "i", "n", "g">>)>>,
       <<WordBoundary, Lit(<<"t", "e", "x", "t", "b", "o", "o", "k">>)>>,
       <<WordBoundary, Lit(<<"g", "u", "i", "d", "e">>)>> >>

\* "for pattern in patterns: if re.search(pattern, s): return ..."
AnyPattern(patterns, s) == \E k \in DOMAIN patterns : re_search(patterns[k], s)

\* "for keyword in keywords: if keyword in s: return ..."
AnyKeyword(keywords, s) == \E k \in DOMAIN keywords : Contains(s, keywords[k])

\* Variant: the label heuristics are consulted before the hint.
determine_tag_label_first(label, topic_type) ==
    LET label_lower == lower(label)
    IN  IF AnyPattern(geographic_patterns, label_lower) THEN "651"
        ELSE IF AnyPattern(genre_patterns, label_lower) THEN "655"
        ELSE IF topic_type = "geographic" THEN "651"
        ELSE IF topic_type = "genre" THEN "655"
        ELSE "650"

\* Variant: the genre patterns are tested before the geographic ones.
determine_tag_genre_first(label, topic_type) ==
    IF topic_type = "geographic" THEN "651"
    ELSE IF topic_type = "genre" THEN "655"
    ELSE IF topic_type = "topical" THEN "650"
    ELSE LET label_lower == lower(label)
         IN  IF AnyPattern(genre_patterns, label_lower) THEN "655"
             ELSE IF AnyPattern(geographic_patterns, label_lower) THEN "651"
             ELSE "650"

\* topic_type is compared with the three literals only; anything else
\* (None or another string) falls through to the label heuristics.
determine_tag(label, topic_type) ==
    IF topic_type = "geographic" THEN "651"
    ELSE IF topic_type = "genre" THEN "655"
    ELSE IF topic_type = "topical" THEN "650"
    ELSE LET label_lower == lower(label)
         IN  IF AnyPattern(geographic_patterns, label_lower) THEN "651"
             ELSE IF AnyPattern(genre_patterns, label_lower) THEN "655"
             ELSE "650"

\* Variant: only the period words, no year patterns.
chronological_patterns_words_only ==
    << <<Lit(<<"c", "e", "n", "t", "u", "r", "y">>)>>,
       <<Lit(<<"p", "e", "r", "i", "o", "d">>)>>,
       <<Lit(<<"e", "r", "a">>)>>,
       <<Lit(<<"d", "y", "n", "a", "s", "t", "y">>)>>,
       <<Lit(<<"a", "g", "e">>)>> >>

chronological_patterns ==
    << <<DigitRun(3, 4)>>,
       <<Lit(<<"c", "e", "n", "t", "u", "r", "y">>)>>,
       <<Lit(<<"p", "e", "r", "i", "o", "d">>)>>,
       <<Lit(<<"e", "r", "a">>)>>,
       <<Lit(<<"d", "y", "n", "a", "s", "t", "y">>)>>,
       <<Lit(<<"a", "g", "e">>)>>,
       <<Lit(<<"t", "o", " ">>), DigitPlus>>,
       <<DigitPlus, Lit(<<"-">>), DigitPlus>> >>

geographic_keywords ==
    << <<"u", "n", "i", "t", "e", "d", " ", "s", "t", "a", "t", "e", "s">>, <<"a", "m", "e", "r", "i", "c", "a">>, <<"c", "h", "i", "n", "a">>, <<"j", "a", "p", "a", "n">>, <<"e", "u", "r", "o", "p", "e">>,
       <<"a", "s", "i", "a">>, <<"a", "f", "r", "i", "c", "a">>, <<"c", "i", "t", "y">>, <<"s", "t", "a", "t", "e">>, <<"p", "r", "o", "v", "i", "n", "c", "e">>, <<"r", "e", "g", "i", "o", "n">>,
       <<"c", "o", "u", "n", "t", "y">>, <<"k", "i", "n", "g", "d", "o", "m">>, <<"r", "e", "p", "u", "b", "l", "i", "c">> >>

form_keywords ==
    << <<"c", "o", "n", "g", "r", "e", "s", "s", "e", "s">>, <<"c", "o", "n", "f", "e", "r", "e", "n", "c", "e", "s">>, <<"p", "e", "r", "i", "o", "d", "i", "c", "a", "l", "s">>,
       <<"h", "a", "n", "d", "b", "o", "o", "k", "s">>, <<"m", "a", "n", "u", "a", "l", "s">>, <<"g", "u", "i", "d", "e", "b", "o", "o", "k", "s">>,
       <<"d", "i", "c", "t", "i", "o", "n", "a", "r", "i", "e", "s">>, <<"e", "n", "c", "y", "c", "l", "o", "p", "e", "d", "i", "a", "s">>, <<"d", "i", "r", "e", "c", "t", "o", "r", "i", "e", "s">>,
       <<"b", "i", "b", "l", "i", "o", "g", "r", "a", "p", "h", "y">>, <<"c", "a", "t", "a", "l", "o", "g", "s">>, <<"i", "n", "d", "e", "x", "e", "s">>,
       <<"a", "b", "s", "t", "r", "a", "c", "t", "s">>, <<"r", "e", "v", "i", "e", "w", "s">>, <<"c", "a", "s", "e", " ", "s", "t", "u", "d", "i", "e", "s">>,
       <<"t", "e", "x", "t", "b", "o", "o", "k", "s">>, <<"p", "r", "o", "b", "l", "e", "m", "s">>, <<"e", "x", "e", "r", "c", "i", "s", "e", "s">>,
       <<"e", "x", "a", "m", "i", "n", "a", "t", "i", "o", "n", "s">>, <<"o", "u", "t", "l", "i", "n", "e", "s">>, <<"s", "t", "u", "d", "y", " ", "g", "u", "i", "d", "e", "s">> >>

\* Variant: the form keywords are tested before the gazetteer.
classify_subdivision_form_first(text) ==
    LET text_lower == lower(text)
    IN  IF AnyPattern(chronological_patterns, text_lower) THEN "y"
        ELSE IF AnyKeyword(form_keywords, text_lower) THEN "v"
        ELSE IF AnyKeyword(geographic_keywords, text_lower) THEN "z"
        ELSE "x"

classify_subdivision(text) ==
    LET text_lower == lower(text)
    IN  IF AnyPattern(chronological_patterns, text_lower) THEN "y"
        ELSE IF AnyKeyword(geographic_keywords, text_lower) THEN "z"
        ELSE IF AnyKeyword(form_keywords, text_lower) THEN "v"
        ELSE "x"

\* Variant: the parts are not stripped.
parse_subdivisions_no_strip(label) ==
    LET parts == split(label, <<"-", "-">>)
    IN  [k \in 1..Len(parts) |->
            IF k = 1
            THEN Subfield("a", parts[1])
            ELSE Subfield(classify_subdivision(parts[k]), parts[k])]

\* Variant: the loop starts one part late ("for part in parts[2:]").
parse_subdivisions_skip_one(label) ==
    LET raw   == split(label, <<"-", "-">>)
        parts == [k \in 1..Len(raw) |-> strip(raw[k])]
        kept  == [k \in 1..(IF Len(parts) > 1 THEN Len(parts) - 1 ELSE 1) |->
                     IF k = 1 THEN parts[1] ELSE parts[k + 1]]
    IN  [k \in 1..Len(kept) |->
            IF k = 1
            THEN Subfield("a", kept[1])
            ELSE Subfield(classify_subdivision(kept[k]), kept[k])]

\* parts = [p.strip() for p in label.split("--")]; split never returns an
\* empty list, so the "if not parts" branch is not reachable.
parse_subdivisions(label) ==
    LET raw   == split(label, <<"-", "-">>)
        parts == [k \in 1..Len(raw) |-> strip(raw[k])]
    IN  [k \in 1..Len(parts) |->
            IF k = 1
            THEN Subfield("a", parts[1])
            ELSE Subfield(classify_subdivision(parts[k]), parts[k])]

\* uri.rstrip("/")
RECURSIVE rstrip_slash(_)
rstrip_slash(s) ==
    IF s # <<>> /\ s[Len(s)] = "/"
    THEN rstrip_slash(SubSeq(s, 1, Len(s) - 1))
    ELSE s

\* Variant: the search is case-sensitive (no re.IGNORECASE).
fst_match_case_sensitive(uri) ==
    LET starts == {i \in 1..(Len(uri) - 3) :
                      /\ SubSeq(uri, i, i + 2) = <<"f", "s", "t">>
                      /\ uri[i + 3] \in Digits}
        at     == CHOOSE i \in starts : \A j \in starts : i <= j
        ends   == {e \in (at + 3)..Len(uri) :
                      \A j \in (at + 3)..e : uri[j] \in Digits}
        to     == CHOOSE e \in ends : \A f \in ends : f <= e
    IN  IF starts = {} THEN None ELSE Some(SubSeq(uri, at, to))

\* re.search(r'fst\d+', uri, re.IGNORECASE).group(0): the leftmost match,
\* with as many digits as follow.
fst_match(uri) ==
    LET low    == lower(uri)
        starts == {i \in 1..(Len(uri) - 3) :
                      /\ SubSeq(low, i, i + 2) = <<"f", "s", "t">>
                      /\ uri[i + 3] \in Digits}
        at     == CHOOSE i \in starts : \A j \in starts : i <= j
        ends   == {e \in (at + 3)..Len(uri) :
                      \A j \in (at + 3)..e : uri[j] \in Digits}
        to     == CHOOSE e \in ends : \A f \in ends : f <= e
    IN  IF starts = {} THEN None ELSE Some(SubSeq(uri, at, to))

\* Variant: the FAST branch is tested before the id.loc.gov branch.
extract_authority_id_fast_first(uri) ==
    IF uri = <<>> THEN None
    ELSE IF Contains(lower(uri), <<"f", "s", "t">>) THEN fst_match(uri)
    ELSE IF Contains(uri, <<"i", "d", ".", "l", "o", "c", ".", "g", "o", "v">>)
    THEN LET parts == split(rstrip_slash(uri), <<"/">>)
         IN  Some(parts[Len(parts)])
    ELSE None

extract_authority_id(uri) ==
    IF uri = <<>> THEN None
    ELSE IF Contains(uri, <<"i", "d", ".", "l", "o", "c", ".", "g", "o", "v">>)
    THEN LET parts == split(rstrip_slash(uri), <<"/">>)
         IN  Some(parts[Len(parts)])
    ELSE IF Contains(lower(uri), <<"f", "s", "t">>) THEN fst_match(uri)
    ELSE None

\* Variant: $2 is appended before $0.
build_subject_65x_source_first(auth, topic_type) ==
    LET tag          == determine_tag(auth.label, topic_type)
        vocab        == lower(auth.vocabulary)
        vocab_config == VOCAB_TO_MARC(vocab)
        heading      == parse_subdivisions(auth.label)
        with2        == IF vocab_config.subfield2.some
                           /\ vocab_config.subfield2.value # <<>>
                        THEN Append(heading,
                                    Subfield("2", vocab_config.subfield2.value))
                        ELSE heading
        with0        == IF auth.uri # <<>>
                        THEN Append(with2, Subfield("0", auth.uri))
                        ELSE with2
    IN  [tag            |-> tag,
         ind1           |-> "_",
         ind2           |-> vocab_config.ind2,
         vocabulary     |-> vocab,
         heading_string |-> auth.label,
         subfields      |-> with0,
         uri            |-> auth.uri,
         authority_id   |-> extract_authority_id(auth.uri),
         source_system  |-> "ai_generated",
         score          |-> auth.score,
         status         |-> "suggested",
         explanation    |-> <<"M", "a", "t", "c", "h", " ", "s", "c", "o", "r", "e", ":", " ">> \o format_2f(auth.score)]

\* build_subject_65x with generate_explanation = False (no call to the
\* explanation service).
build_subject_65x(auth, topic_type) ==
    LET tag          == determine_tag(auth.label, topic_type)
        vocab        == lower(auth.vocabulary)
        vocab_config == VOCAB_TO_MARC(vocab)
        heading      == parse_subdivisions(auth.label)
        with0        == IF auth.uri # <<>>
                        THEN Append(heading, Subfield("0", auth.uri))
                        ELSE heading
        \* "if vocab_config["subfield2"]": None and "" are both falsy
        with2        == IF vocab_config.subfield2.some
                           /\ vocab_config.subfield2.value # <<>>
                        THEN Append(with0,
                                    Subfield("2", vocab_config.subfield2.value))
                        ELSE with0
    IN  [tag            |-> tag,
         ind1           |-> "_",
         ind2           |-> vocab_config.ind2,
         vocabulary     |-> vocab,
         heading_string |-> auth.label,
         subfields      |-> with2,
         uri            |-> auth.uri,
         authority_id   |-> extract_authority_id(auth.uri),
         source_system  |-> "ai_generated",
         score          |-> auth.score,
         status         |-> "suggested",
         \* f"Match score: {authority.score:.2f}"
         explanation    |-> <<"M", "a", "t", "c", "h", " ", "s", "c", "o", "r", "e", ":", " ">> \o format_2f(auth.score)]

\* The characters of a tag.
tag_text(tag) ==
    CASE tag = "650" -> <<"6", "5", "0">>
      [] tag = "651" -> <<"6", "5", "1">>
      [] tag = "655" -> <<"6", "5", "5">>

\* " $<code> <value>" for each subfield, in sequence order.
RECURSIVE render_subfields(_)
render_subfields(subfields) ==
    IF subfields = <<>> THEN <<>>
    ELSE <<" ", "$">> \o <<Head(subfields).code>> \o <<" ">> \o Head(subfields).value
           \o render_subfields(Tail(subfields))

\* Variant: no terminating period.
render_marc_string_unterminated(field) ==
    tag_text(field.tag) \o <<" ">> \o <<field.ind1>> \o <<field.ind2>>
        \o render_subfields(field.subfields)

\* The MARC string of a field: "<tag> <ind1><ind2>", the subfields, ".".
render_marc_string(field) ==
    tag_text(field.tag) \o <<" ">> \o <<field.ind1>> \o <<field.ind2>>
        \o render_subfields(field.subfields) \o <<".">>

\* Variant: a label without a visible character is refused.
build_raises_on_blank_label(auth, topic_type) ==
    IF auth.vocabulary = Missing \/ auth.label = Missing
    THEN "AttributeError"
    ELSE IF strip(auth.label) = <<>> THEN "ValueError"
    ELSE "none"

\* The exception that leaves build_subject_65x, "none" when it returns.
\* The builder validates nothing; it fails where it calls a str method on a
\* value that is None: label.lower() in _determine_tag when the hint is not
\* one of the three, vocabulary.lower(), then label.split("--").
build_raises(auth, topic_type) ==
    IF topic_type \notin {"geographic", "genre", "topical"}
       /\ auth.label = Missing
    THEN "AttributeError"
    ELSE IF auth.vocabulary = Missing THEN "AttributeError"
    ELSE IF auth.label = Missing THEN "AttributeError"
    ELSE "none"


(***************************************************************************)
(* Inputs.  A label is a concatenation of at most MaxFragments fragments   *)
(* (keywords of the tables, the delimiter, a hyphen, a digit, a blank), or *)
(* one of the headings quoted in the repository and its specification.     *)
(***************************************************************************)
MaxFragments == 3

MaxBuildFragments == 2

Fragments ==
    { <<"C", "h", "i", "n", "a">>, <<"a", "s", "i", "a">>, <<"n">>, <<"a", "g", "e">>, <<"m", "a", "n", "u", "a", "l", "s">>, <<"R", "e", "v", "i", "e", "w", "s">>,
      <<"-", "-">>, <<"-">>, <<" ">>, <<"_">>, <<"1">>, <<"t", "o", " ">> }

RECURSIVE Concats(_)
Concats(n) ==
    IF n = 0
    THEN {<<>>}
    ELSE LET shorter == Concats(n - 1)
         IN  shorter \cup {p \o f : p \in shorter, f \in Fragments}

ExampleLabels ==
    { <<"M", "i", "n", "g", " ", "d", "y", "n", "a", "s", "t", "y", ",", " ", "1", "3", "6", "8", "-", "1", "6", "4", "4">>, <<"H", "a", "n", "d", "b", "o", "o", "k", "s">>, <<"S", "o", "c", "i", "a", "l", " ", "a", "s", "p", "e", "c", "t", "s">>,
      <<"K", "y", "o", "t", "o", ",", " ", "J", "a", "p", "a", "n">>, <<"C", "h", "i", "n", "a", " ", "-", "-", " ", "C", "i", "v", "i", "l", "i", "z", "a", "t", "i", "o", "n">>, <<"C", "h", "i", "n", "a", " ", "-", "-", " ", "H", "i", "s", "t", "o", "r", "y">>,
      <<"C", "h", "i", "n", "a", " ", "-", "-", " ", "H", "i", "s", "t", "o", "r", "y", " ", "-", "-", " ", "M", "i", "n", "g", " ", "d", "y", "n", "a", "s", "t", "y", ",", " ", "1", "3", "6", "8", "-", "1", "6", "4", "4">>,
      <<"C", "a", "l", "l", "i", "g", "r", "a", "p", "h", "y", ",", " ", "C", "h", "i", "n", "e", "s", "e", " ", "-", "-", " ", "M", "i", "n", "g", "-", "Q", "i", "n", "g", " ", "d", "y", "n", "a", "s", "t", "i", "e", "s", ",", " ", "1", "3", "6", "8", "-", "1", "9", "1", "2">>,
      <<"L", "i", "t", "e", "r", "a", "t", "u", "r", "e">>, <<"L", "a", "n", "g", "u", "a", "g", "e", "s">>, <<"O", "p", "e", "r", "a", "s">>, <<"A", "s", "i", "a", "n">>,
      <<"A", "-", "-", "-", "-", "B">>, <<"-", "-", "A">>, <<"A", "-", "-">> }

Labels(n) == Concats(n) \cup ExampleLabels

Vocabularies == { <<"l", "c", "s", "h">>, <<"L", "C", "S", "H">>, <<"f", "a", "s", "t">>, <<"g", "t", "t">>, <<>> }

URIs ==
    { <<>>,
      <<"h", "t", "t", "p", ":", "/", "/", "i", "d", ".", "l", "o", "c", ".", "g", "o", "v", "/", "a", "u", "t", "h", "o", "r", "i", "t", "i", "e", "s", "/", "s", "u", "b", "j", "e", "c", "t", "s", "/", "s", "h", "8", "5", "0", "1", "8", "9", "1", "0">>,
      <<"(", "O", "C", "o", "L", "C", ")", "f", "s", "t", "0", "0", "8", "4", "4", "4", "3", "7">> }

\* score in hundredths
Scores == {92}

\* "None" stands for Python's None, "genre_form" for a string that is none
\* of the three recognised hints.
TopicTypes == {"topical", "geographic", "genre", "None", "genre_form"}

AuthorityCandidate(label, uri, vocabulary, score) ==
    [label |-> label, uri |-> uri, vocabulary |-> vocabulary, score |-> score]

NoResult == [call |-> "none"]

\* dict.get(key, default)
dict_get(table, key, default) ==
    IF key \in DOMAIN table THEN table[key] ELSE default

\* Variant: the lookup is dict.setdefault, which stores the default.
dict_after_setdefault(table, key, default) ==
    IF key \in DOMAIN table THEN table
    ELSE [k \in DOMAIN table \cup {key} |->
            IF k = key THEN default ELSE table[k]]

\* The dict after dict.get(key, default): as it was.
dict_after_get(table, key, default) == table

FUTURE_VOCAB_TO_MARC ==
    [v \in {<<"g", "t", "t">>, <<"r", "e", "r", "o">>, <<"s", "w", "d">>, <<"i", "d", "s", "z", "b", "z">>, <<"r", "a", "m">>} |->
        [ind2 |-> "7", subfield2 |-> Some(v)]]

\* The module-level singleton marc_65x_builder: the two class tables and the
\* fields set by __init__.
MARC65XBuilder ==
    [VOCAB_TO_MARC        |-> [v \in {<<"l", "c", "s", "h">>, <<"f", "a", "s", "t">>} |-> VOCAB_TO_MARC(v)],
     FUTURE_VOCAB_TO_MARC |-> FUTURE_VOCAB_TO_MARC,
     client               |-> "OpenAI",
     model                |-> "explanation_model"]

\* AuthorityVectorSearch as constructed: no client yet.
AuthorityVectorSearch == [client |-> "None"]

NoRequest == [topic |-> <<>>]

\* The vector database, the search object and the arguments of a search.
search_state == <<weaviate, searcher, request>>

SearchAtRest ==
    /\ weaviate = <<>>
    /\ searcher = AuthorityVectorSearch
    /\ request = NoRequest

\* The state beyond the one sequential call: the singleton, the concurrent
\* invocations and the search.
beyond_call == <<builder, calls, search_state>>

BeyondCallAtRest ==
    /\ builder = MARC65XBuilder
    /\ calls = <<>>
    /\ SearchAtRest

(***************************************************************************)
(* The operations.  Each call happens once on the candidate drawn in Init; *)
(* result records the call, its arguments and what it returned.            *)
(***************************************************************************)
BuildSubject65X(topic_type) ==
    /\ pc = "ready"
    /\ pc' = "done"
    /\ result' = LET raised == build_raises(authority, topic_type)
                  IN  IF raised = "none"
                      THEN [call       |-> "build_subject_65x",
                            topic_type |-> topic_type,
                            raised     |-> raised,
                            ret        |-> build_subject_65x(authority,
                                                             topic_type)]
                      ELSE [call       |-> "build_subject_65x",
                            topic_type |-> topic_type,
                            raised     |-> raised]
    /\ UNCHANGED <<authority, beyond_call>>

DetermineTag(topic_type) ==
    /\ pc = "ready"
    /\ pc' = "done"
    /\ result' = [call       |-> "_determine_tag",
                  topic_type |-> topic_type,
                  ret        |-> determine_tag(authority.label, topic_type)]
    /\ UNCHANGED <<authority, beyond_call>>

ParseSubdivisions ==
    /\ pc = "ready"
    /\ pc' = "done"
    /\ result' = [call |-> "_parse_subdivisions",
                  ret  |-> parse_subdivisions(authority.label)]
    /\ UNCHANGED <<authority, beyond_call>>

\* _classify_subdivision called on its own, with the label as the text.
ClassifySubdivision ==
    /\ pc = "ready"
    /\ pc' = "done"
    /\ result' = [call |-> "_classify_subdivision",
                  ret  |-> classify_subdivision(authority.label)]
    /\ UNCHANGED <<authority, beyond_call>>

\* build_subject_65x on any candidate.
\* The field just built is rendered to its MARC string.
RenderMarcString ==
    /\ pc = "done"
    /\ result.call = "build_subject_65x"
    /\ result.raised = "none"
    /\ pc' = "rendered"
    /\ result' = [call  |-> "render_marc_string",
                  field |-> result.ret,
                  ret   |-> render_marc_string(result.ret)]
    /\ UNCHANGED <<authority, beyond_call>>

Init ==
    /\ authority \in {AuthorityCandidate(l, u, v, s) :
                         l \in Labels(MaxBuildFragments), u \in URIs,
                         v \in Vocabularies, s \in Scores}
    /\ pc = "ready"
    /\ result = NoResult
    /\ BeyondCallAtRest

Next ==
    \/ \E t \in TopicTypes : BuildSubject65X(t)
    \/ RenderMarcString

Spec == Init /\ [][Next]_vars

\* The helpers of the builder on any label.
InitHelpers ==
    /\ authority \in {AuthorityCandidate(l, <<>>, <<"l", "c", "s", "h">>, s) :
                         l \in Labels(MaxFragments), s \in Scores}
    /\ pc = "ready"
    /\ result = NoResult
    /\ BeyondCallAtRest

NextHelpers ==
    \/ \E t \in TopicTypes : DetermineTag(t)
    \/ ParseSubdivisions
    \/ ClassifySubdivision

SpecHelpers == InitHelpers /\ [][NextHelpers]_vars

(***************************************************************************)
(* Concurrent invocations of build_subject_65x on the singleton, one       *)
(* statement at a time.  Each invocation has its own locals; the class     *)
(* tables and the singleton's fields are shared.                           *)
(***************************************************************************)
NumInvocations == 2

Invocations == 1..NumInvocations

ConcurrentCandidates ==
    { AuthorityCandidate(
          <<"C", "a", "l", "l", "i", "g", "r", "a", "p", "h", "y", ",", " ", "C", "h", "i", "n", "e", "s", "e", " ", "-", "-", " ", "M", "i", "n", "g", "-", "Q", "i", "n", "g", " ", "d", "y", "n", "a", "s", "t", "i", "e", "s", ",", " ", "1", "3", "6", "8", "-", "1", "9", "1", "2">>,
          <<"h", "t", "t", "p", ":", "/", "/", "i", "d", ".", "l", "o", "c", ".", "g", "o", "v", "/", "a", "u", "t", "h", "o", "r", "i", "t", "i", "e", "s", "/", "s", "u", "b", "j", "e", "c", "t", "s", "/", "s", "h", "8", "5", "0", "1", "8", "9", "1", "0">>, <<"l", "c", "s", "h">>, 92),
      AuthorityCandidate(<<"K", "y", "o", "t", "o", ",", " ", "J", "a", "p", "a", "n">>, <<>>, <<"g", "t", "t">>, 92) }

ConcurrentHints == {"topical", "None"}

NotCalled == [pc |-> "idle"]

\* The locals of an invocation that has just been entered.
Frame(auth, topic_type) ==
    [pc           |-> "tag",
     authority    |-> auth,
     topic_type   |-> topic_type,
     tag          |-> "",
     vocab        |-> <<>>,
     vocab_config |-> None,
     subfields    |-> <<>>,
     authority_id |-> None,
     ret          |-> None]

At(i, label) == calls[i].pc = label

Invoke(i) ==
    /\ At(i, "idle")
    /\ \E auth \in ConcurrentCandidates, t \in ConcurrentHints :
         calls' = [calls EXCEPT ![i] = Frame(auth, t)]
    /\ UNCHANGED <<authority, pc, result, builder, search_state>>

\* tag = self._determine_tag(authority, topic_type)
StepDetermineTag(i) ==
    /\ At(i, "tag")
    /\ calls' = [calls EXCEPT
                   ![i].tag = determine_tag(calls[i].authority.label,
                                            calls[i].topic_type),
                   ![i].pc  = "vocab"]
    /\ UNCHANGED <<authority, pc, result, builder, search_state>>

\* vocab = authority.vocabulary.lower(); vocab_config = VOCAB_TO_MARC.get(..)
StepLookupVocabulary(i) ==
    /\ At(i, "vocab")
    /\ LET vocab == lower(calls[i].authority.vocabulary)
       IN  /\ calls' = [calls EXCEPT
                          ![i].vocab        = vocab,
                          ![i].vocab_config =
                              dict_get(builder.VOCAB_TO_MARC, vocab,
                                       FallbackConfig(vocab)),
                          ![i].pc           = "parse"]
           /\ builder' = [builder EXCEPT
                            !.VOCAB_TO_MARC =
                                dict_after_get(@, vocab,
                                               FallbackConfig(vocab))]
    /\ UNCHANGED <<authority, pc, result, search_state>>

\* subfields = self._parse_subdivisions(authority.label)
StepParseSubdivisions(i) ==
    /\ At(i, "parse")
    /\ calls' = [calls EXCEPT
                   ![i].subfields =
                       parse_subdivisions(calls[i].authority.label),
                   ![i].pc        = "uri"]
    /\ UNCHANGED <<authority, pc, result, builder, search_state>>

\* if authority.uri: subfields.append(Subfield(code="0", ...))
StepAppendUri(i) ==
    /\ At(i, "uri")
    /\ calls' = [calls EXCEPT
                   ![i].subfields =
                       IF calls[i].authority.uri # <<>>
                       THEN Append(@, Subfield("0", calls[i].authority.uri))
                       ELSE @,
                   ![i].pc        = "source"]
    /\ UNCHANGED <<authority, pc, result, builder, search_state>>

\* if vocab_config["subfield2"]: subfields.append(Subfield(code="2", ...))
StepAppendSource(i) ==
    /\ At(i, "source")
    /\ calls' = [calls EXCEPT
                   ![i].subfields =
                       IF calls[i].vocab_config.subfield2.some
                          /\ calls[i].vocab_config.subfield2.value # <<>>
                       THEN Append(@, Subfield("2",
                                calls[i].vocab_config.subfield2.value))
                       ELSE @,
                   ![i].pc        = "id"]
    /\ UNCHANGED <<authority, pc, result, builder, search_state>>

\* authority_id = self._extract_authority_id(authority.uri)
StepExtractAuthorityId(i) ==
    /\ At(i, "id")
    /\ calls' = [calls EXCEPT
                   ![i].authority_id =
                       extract_authority_id(calls[i].authority.uri),
                   ![i].pc           = "construct"]
    /\ UNCHANGED <<authority, pc, result, builder, search_state>>

\* subject = Subject65X(...); subject.explanation = ...; return subject
StepReturn(i) ==
    /\ At(i, "construct")
    /\ calls' = [calls EXCEPT
                   ![i].ret =
                       [tag            |-> calls[i].tag,
                        ind1           |-> "_",
                        ind2           |-> calls[i].vocab_config.ind2,
                        vocabulary     |-> calls[i].vocab,
                        heading_string |-> calls[i].authority.label,
                        subfields      |-> calls[i].subfields,
                        uri            |-> calls[i].authority.uri,
                        authority_id   |-> calls[i].authority_id,
                        source_system  |-> "ai_generated",
                        score          |-> calls[i].authority.score,
                        status         |-> "suggested",
                        explanation    |-> <<"M", "a", "t", "c", "h", " ", "s", "c", "o", "r", "e", ":", " ">>
                            \o format_2f(calls[i].authority.score)],
                   ![i].pc  = "returned"]
    /\ UNCHANGED <<authority, pc, result, builder, search_state>>

InitConcurrent ==
    /\ authority = AuthorityCandidate(<<>>, <<>>, <<>>, 0)
    /\ pc = "concurrent"
    /\ result = NoResult
    /\ builder = MARC65XBuilder
    /\ calls = [i \in Invocations |-> NotCalled]
    /\ SearchAtRest

NextConcurrent ==
    \E i \in Invocations :
        \/ Invoke(i)
        \/ StepDetermineTag(i)
        \/ StepLookupVocabulary(i)
        \/ StepParseSubdivisions(i)
        \/ StepAppendUri(i)
        \/ StepAppendSource(i)
        \/ StepExtractAuthorityId(i)
        \/ StepReturn(i)

SpecConcurrent == InitConcurrent /\ [][NextConcurrent]_vars

(***************************************************************************)
(* AuthorityVectorSearch.search_authorities over a vector database whose   *)
(* collections hold ranked objects.                                        *)
(***************************************************************************)
vocab_map ==
    [v \in {<<"l", "c", "s", "h">>, <<"f", "a", "s", "t">>, <<"g", "t", "t">>, <<"r", "e", "r", "o">>, <<"s", "w", "d">>} |->
        CASE v = <<"l", "c", "s", "h">> -> "LCSHSubject"
          [] v = <<"f", "a", "s", "t">> -> "FASTSubject"
          [] v = <<"g", "t", "t">>  -> "GTTSubject"
          [] v = <<"r", "e", "r", "o">> -> "REROSubject"
          [] v = <<"s", "w", "d">>  -> "SWDSubject"]

get_collection_for_vocab(vocabulary) ==
    dict_get(vocab_map, lower(vocabulary), "LCSHSubject")

\* near_vector(limit = n): the n nearest objects, nearest first.
near_vector(objects, n) ==
    SubSeq(objects, 1, IF Len(objects) < n THEN Len(objects) ELSE n)

NoCertainty == [some |-> FALSE, value |-> 0]

\* "if obj.metadata.certainty and obj.metadata.certainty >= min_score":
\* None and 0 are falsy.
passes_threshold(obj, min_score) ==
    /\ obj.certainty.some
    /\ obj.certainty.value # 0
    /\ obj.certainty.value >= min_score

\* Variant: a stored subject_type is copied onto the candidate.
RECURSIVE parse_results_copying_subject_type(_, _, _)
parse_results_copying_subject_type(objects, vocab, min_score) ==
    IF objects = <<>> THEN <<>>
    ELSE LET obj  == Head(objects)
             rest == parse_results_copying_subject_type(Tail(objects), vocab,
                                                        min_score)
             code == IF obj.vocabulary.some THEN obj.vocabulary.value
                     ELSE vocab
         IN  IF ~passes_threshold(obj, min_score) THEN rest
             ELSE IF "subject_type" \in DOMAIN obj
             THEN << [label        |-> obj.label,
                      uri          |-> obj.uri,
                      vocabulary   |-> code,
                      score        |-> obj.certainty.value,
                      subject_type |-> obj.subject_type] >> \o rest
             ELSE << AuthorityCandidate(obj.label, obj.uri, code,
                                        obj.certainty.value) >> \o rest

\* The candidates appended for the objects of one response, in order.
RECURSIVE parse_results(_, _, _)
parse_results(objects, vocab, min_score) ==
    IF objects = <<>> THEN <<>>
    ELSE LET obj == Head(objects)
             rest == parse_results(Tail(objects), vocab, min_score)
         IN  IF passes_threshold(obj, min_score)
             THEN << AuthorityCandidate(
                         obj.label, obj.uri,
                         IF obj.vocabulary.some THEN obj.vocabulary.value
                         ELSE vocab,
                         obj.certainty.value) >> \o rest
             ELSE rest

\* One pass of "for vocab in vocabularies".  Without a client, or when the
\* collection does not exist, the query raises inside the inner try and the
\* vocabulary is skipped.
search_vocabulary(client, db, vocab, limit, min_score) ==
    LET collection_name == get_collection_for_vocab(vocab)
    IN  IF client = "None" \/ collection_name \notin DOMAIN db
        THEN <<>>
        ELSE parse_results(near_vector(db[collection_name], limit),
                           vocab, min_score)

\* Variant: the first vocabulary whose query fails ends the whole loop.
RECURSIVE all_candidates_abort_at_failure(_, _, _, _, _)
all_candidates_abort_at_failure(client, db, vocabularies, limit, min_score) ==
    IF vocabularies = <<>> THEN <<>>
    ELSE IF \/ client = "None"
            \/ get_collection_for_vocab(Head(vocabularies)) \notin DOMAIN db
    THEN <<>>
    ELSE search_vocabulary(client, db, Head(vocabularies), limit, min_score)
           \o all_candidates_abort_at_failure(client, db, Tail(vocabularies),
                                              limit, min_score)

RECURSIVE all_candidates(_, _, _, _, _)
all_candidates(client, db, vocabularies, limit, min_score) ==
    IF vocabularies = <<>> THEN <<>>
    ELSE search_vocabulary(client, db, Head(vocabularies), limit, min_score)
           \o all_candidates(client, db, Tail(vocabularies), limit, min_score)

\* The place of a candidate in a list sorted by score descending: behind
\* every candidate whose score is at least its own (the sort is stable).
RECURSIVE insert_by_score(_, _)
insert_by_score(candidate, sorted) ==
    IF sorted = <<>> THEN <<candidate>>
    ELSE IF Head(sorted).score >= candidate.score
    THEN <<Head(sorted)>> \o insert_by_score(candidate, Tail(sorted))
    ELSE <<candidate>> \o sorted

\* Variant: the candidates are left in the order they were collected.
sort_by_score_omitted(candidates) == candidates

\* all_candidates.sort(key=lambda x: x.score, reverse=True)
RECURSIVE sort_by_score(_)
sort_by_score(candidates) ==
    IF candidates = <<>> THEN <<>>
    ELSE insert_by_score(candidates[Len(candidates)],
                         sort_by_score(SubSeq(candidates, 1,
                                              Len(candidates) - 1)))

DefaultVocabularies == <<<<"l", "c", "s", "h">>, <<"f", "a", "s", "t">>>>

\* The list search_authorities returns when the embedding succeeds.
search_authorities(client, db, req) ==
    LET vocabularies == IF req.vocabularies.some THEN req.vocabularies.value
                        ELSE DefaultVocabularies
    IN  sort_by_score(all_candidates(client, db, vocabularies,
                                     req.limit_per_vocab, req.min_score))

\* Inputs of the search.
MaxObjects == 2

MaxVocabularies == 2

MaxLimit == 2

\* Certainties in hundredths: below, at and above the default threshold.
CertaintyValues == {65, 70, 92}

MinScores == {70}

RequestedCodes == {<<"l", "c", "s", "h">>, <<"f", "a", "s", "t">>, <<"r", "a", "m">>}

lcsh_samples ==
    << [label |-> <<"C", "a", "l", "l", "i", "g", "r", "a", "p", "h", "y", ",", " ", "C", "h", "i", "n", "e", "s", "e">>,
        uri   |-> <<"h", "t", "t", "p", ":", "/", "/", "i", "d", ".", "l", "o", "c", ".", "g", "o", "v", "/", "a", "u", "t", "h", "o", "r", "i", "t", "i", "e", "s", "/", "s", "u", "b", "j", "e", "c", "t", "s", "/", "s", "h", "8", "5", "0", "1", "8", "9", "0", "9">>],
       [label |-> <<"C", "a", "l", "l", "i", "g", "r", "a", "p", "h", "y", ",", " ", "C", "h", "i", "n", "e", "s", "e", " ", "-", "-", " ", "M", "i", "n", "g", "-", "Q", "i", "n", "g", " ", "d", "y", "n", "a", "s", "t", "i", "e", "s", ",", " ", "1", "3", "6", "8", "-", "1", "9", "1", "2">>,
        uri   |-> <<"h", "t", "t", "p", ":", "/", "/", "i", "d", ".", "l", "o", "c", ".", "g", "o", "v", "/", "a", "u", "t", "h", "o", "r", "i", "t", "i", "e", "s", "/", "s", "u", "b", "j", "e", "c", "t", "s", "/", "s", "h", "8", "5", "0", "1", "8", "9", "1", "0">>],
       [label |-> <<"A", "r", "t", ",", " ", "C", "h", "i", "n", "e", "s", "e">>,
        uri   |-> <<"h", "t", "t", "p", ":", "/", "/", "i", "d", ".", "l", "o", "c", ".", "g", "o", "v", "/", "a", "u", "t", "h", "o", "r", "i", "t", "i", "e", "s", "/", "s", "u", "b", "j", "e", "c", "t", "s", "/", "s", "h", "8", "5", "0", "0", "7", "4", "6", "1">>] >>

fast_samples ==
    << [label |-> <<"C", "a", "l", "l", "i", "g", "r", "a", "p", "h", "y", ",", " ", "C", "h", "i", "n", "e", "s", "e">>, uri |-> <<"(", "O", "C", "o", "L", "C", ")", "f", "s", "t", "0", "0", "8", "4", "4", "4", "3", "7">>],
       [label |-> <<"A", "r", "t", ",", " ", "C", "h", "i", "n", "e", "s", "e">>, uri |-> <<"(", "O", "C", "o", "L", "C", ")", "f", "s", "t", "0", "0", "8", "1", "5", "6", "3", "0">>],
       [label |-> <<"C", "h", "i", "n", "a">>, uri |-> <<"(", "O", "C", "o", "L", "C", ")", "f", "s", "t", "0", "1", "2", "0", "6", "0", "7", "3">>] >>

\* The certainties of a ranked response: non-increasing, or none at all when
\* the distance metric has no certainty.
RankedCertainties ==
    UNION { { c \in [1..n -> {Some(v) : v \in CertaintyValues}] :
                \A i \in 1..(n - 1) : c[i].value >= c[i + 1].value }
            \cup {[i \in 1..n |-> NoCertainty]} : n \in 0..MaxObjects }

\* The objects of a collection, as index_authority_entry stored them.
Objects(samples, vocabulary, certainties) ==
    [r \in 1..Len(certainties) |->
        LET sample == samples[((r - 1) % Len(samples)) + 1]
        IN  [label       |-> sample.label,
             uri         |-> sample.uri,
             vocabulary  |-> Some(vocabulary),
             certainty   |-> certainties[r]]]

\* A collection is absent (None) or holds ranked objects.
CollectionStates(samples, vocabulary) ==
    {None} \cup {Some(Objects(samples, vocabulary, c)) :
                    c \in RankedCertainties}

Database(lcsh, fast) ==
    [name \in (IF lcsh.some THEN {"LCSHSubject"} ELSE {})
                \cup (IF fast.some THEN {"FASTSubject"} ELSE {}) |->
        IF name = "LCSHSubject" THEN lcsh.value ELSE fast.value]

Databases ==
    {Database(l, f) : l \in CollectionStates(lcsh_samples, <<"l", "c", "s", "h">>),
                      f \in CollectionStates(fast_samples, <<"f", "a", "s", "t">>)}

VocabularyLists ==
    UNION {[1..n -> RequestedCodes] : n \in 0..MaxVocabularies}

Requests ==
    {[topic           |-> <<"C", "h", "i", "n", "e", "s", "e", " ", "c", "a", "l", "l", "i", "g", "r", "a", "p", "h", "y">>,
      vocabularies    |-> v,
      limit_per_vocab |-> l,
      min_score       |-> m] :
        v \in {None} \cup {Some(list) : list \in VocabularyLists},
        l \in 1..MaxLimit, m \in MinScores}

\* search_authorities: connect if there is no client, embed the topic,
\* query every vocabulary, sort.  A failed embedding is re-raised.
SearchAuthorities(connect_ok, embedding_ok) ==
    /\ pc = "ready"
    /\ pc' = "done"
    /\ LET client == IF searcher.client = "None" /\ connect_ok
                     THEN "connected"
                     ELSE searcher.client
       IN  /\ searcher' = [searcher EXCEPT !.client = client]
           /\ result' =
                IF embedding_ok
                THEN [call   |-> "search_authorities",
                      raised |-> "none",
                      ret    |-> search_authorities(client, weaviate,
                                                    request)]
                ELSE [call   |-> "search_authorities",
                      raised |-> "Exception"]
    /\ UNCHANGED <<authority, builder, calls, weaviate, request>>

InitSearch ==
    /\ authority = AuthorityCandidate(<<>>, <<>>, <<>>, 0)
    /\ pc = "ready"
    /\ result = NoResult
    /\ builder = MARC65XBuilder
    /\ calls = <<>>
    /\ weaviate \in Databases
    /\ searcher = AuthorityVectorSearch
    /\ request \in Requests

NextSearch == \E connect_ok, embedding_ok \in BOOLEAN :
                  SearchAuthorities(connect_ok, embedding_ok)

SpecSearch == InitSearch /\ [][NextSearch]_vars

(***************************************************************************)
(* build_subject_65x with generate_explanation = True: the explanation is  *)
(* asked of the chat completion service, which answers or fails.           *)
(***************************************************************************)
ServiceFailure == [ok |-> FALSE, content |-> <<>>]

ServiceAnswer(content) == [ok |-> TRUE, content |-> content]

\* Variant: a failed call leaves the explanation empty.
generate_explanation_empty_on_failure(auth, topic, service) ==
    IF service.ok THEN strip(service.content) ELSE <<>>

\* _generate_explanation: the stripped answer, or the fallback sentence when
\* the call raises.
generate_explanation(auth, topic, service) ==
    IF service.ok THEN strip(service.content)
    ELSE <<"S", "e", "l", "e", "c", "t", "e", "d", " ", "b", "a", "s", "e", "d", " ", "o", "n", " ", "s", "e", "m", "a", "n", "t", "i", "c", " ", "m", "a", "t", "c", "h", " ", "t", "o", " ", "'">> \o topic
           \o <<"'", " ", "w", "i", "t", "h", " ", "c", "o", "n", "f", "i", "d", "e", "n", "c", "e", " ">> \o format_2f(auth.score)

build_subject_65x_enriched(auth, topic, topic_type, service) ==
    [build_subject_65x(auth, topic_type) EXCEPT
        !.explanation = generate_explanation(auth, topic, service)]

Topics == {<<"C", "h", "i", "n", "e", "s", "e", " ", "c", "a", "l", "l", "i", "g", "r", "a", "p", "h", "y">>}

Services == {ServiceFailure, ServiceAnswer(<<" ", "A", " ", "m", "a", "t", "c", "h", ".", " ">>), ServiceAnswer(<<>>)}

BuildSubject65XEnriched(topic, topic_type, service) ==
    /\ pc = "ready"
    /\ pc' = "done"
    /\ result' = LET raised == build_raises(authority, topic_type)
                 IN  IF raised = "none"
                     THEN [call       |-> "build_subject_65x",
                           topic      |-> topic,
                           topic_type |-> topic_type,
                           service    |-> service,
                           raised     |-> raised,
                           ret        |-> build_subject_65x_enriched(
                                              authority, topic, topic_type,
                                              service)]
                     ELSE [call       |-> "build_subject_65x",
                           topic      |-> topic,
                           topic_type |-> topic_type,
                           service    |-> service,
                           raised     |-> raised]
    /\ UNCHANGED <<authority, beyond_call>>

InitEnriched ==
    /\ authority \in {AuthorityCandidate(l, u, v, s) :
                         l \in Labels(1), u \in URIs,
                         v \in Vocabularies, s \in Scores}
    /\ pc = "ready"
    /\ result = NoResult
    /\ BeyondCallAtRest

NextEnriched ==
    \E topic \in Topics, t \in TopicTypes, service \in Services :
        BuildSubject65XEnriched(topic, t, service)

SpecEnriched == InitEnriched /\ [][NextEnriched]_vars

(***************************************************************************)
(* build_from_topic_matches: per topic result, filter the candidates by    *)
(* vocabulary, keep the first max_per_topic, build each one and skip the   *)
(* ones whose build raises.                                                *)
(***************************************************************************)
InList(x, list) == \E i \in DOMAIN list : list[i] = x

\* seq[:n]
slice_to(seq, n) == SubSeq(seq, 1, IF Len(seq) < n THEN Len(seq) ELSE n)

\* [c for c in candidates if c.vocabulary.lower() in vocabularies]
RECURSIVE filter_by_vocabulary(_, _)
filter_by_vocabulary(candidates, vocabularies) ==
    IF candidates = <<>> THEN <<>>
    ELSE LET c    == Head(candidates)
             rest == filter_by_vocabulary(Tail(candidates), vocabularies)
         IN  IF InList(lower(c.vocabulary), vocabularies)
             THEN <<c>> \o rest
             ELSE rest

\* Variant: truncate first, then filter.
filtered_candidates_truncate_first(candidates, vocabularies, max_per_topic) ==
    filter_by_vocabulary(slice_to(candidates, max_per_topic), vocabularies)

filtered_candidates(candidates, vocabularies, max_per_topic) ==
    slice_to(filter_by_vocabulary(candidates, vocabularies), max_per_topic)

\* Variant: the first failing candidate ends the loop over the candidates.
RECURSIVE build_candidates_stop_at_failure(_, _, _, _)
build_candidates_stop_at_failure(candidates, topic_result, enrich, service) ==
    IF candidates = <<>> THEN <<>>
    ELSE IF build_raises(Head(candidates), topic_result.topic_type) # "none"
    THEN <<>>
    ELSE << IF enrich
            THEN build_subject_65x_enriched(Head(candidates),
                                            topic_result.topic,
                                            topic_result.topic_type, service)
            ELSE build_subject_65x(Head(candidates),
                                   topic_result.topic_type) >>
           \o build_candidates_stop_at_failure(Tail(candidates),
                                               topic_result, enrich, service)

\* "for candidate in filtered_candidates": a build that raises is caught,
\* reported and skipped.  enrich is generate_explanations.
RECURSIVE build_candidates(_, _, _, _)
build_candidates(candidates, topic_result, enrich, service) ==
    IF candidates = <<>> THEN <<>>
    ELSE LET c    == Head(candidates)
             rest == build_candidates(Tail(candidates), topic_result,
                                      enrich, service)
         IN  IF build_raises(c, topic_result.topic_type) # "none" THEN rest
             ELSE << IF enrich
                     THEN build_subject_65x_enriched(
                              c, topic_result.topic,
                              topic_result.topic_type, service)
                     ELSE build_subject_65x(c, topic_result.topic_type) >>
                    \o rest

\* "for topic_result in topic_matches"
RECURSIVE build_topics(_, _, _, _, _)
build_topics(topic_matches, max_per_topic, enrich, vocabularies, service) ==
    IF topic_matches = <<>> THEN <<>>
    ELSE LET topic_result == Head(topic_matches)
         IN  build_candidates(
                 filtered_candidates(topic_result.authority_candidates,
                                     vocabularies, max_per_topic),
                 topic_result, enrich, service)
             \o build_topics(Tail(topic_matches), max_per_topic, enrich,
                             vocabularies, service)

\* The exception that leaves build_from_topic_matches, "none" when it
\* returns: the filter calls vocabulary.lower() on every candidate of a
\* topic outside the try.
batch_raises(topic_matches) ==
    IF \E t \in DOMAIN topic_matches :
         \E i \in DOMAIN topic_matches[t].authority_candidates :
            topic_matches[t].authority_candidates[i].vocabulary = Missing
    THEN "AttributeError"
    ELSE "none"

build_from_topic_matches(req, generate_explanations, service) ==
    build_topics(req.topic_matches, req.max_per_topic, generate_explanations,
                 IF req.vocabularies.some THEN req.vocabularies.value
                 ELSE <<<<"l", "c", "s", "h">>, <<"f", "a", "s", "t">>>>,
                 service)

\* Inputs of the batch.
MaxCandidates == 2

MaxPerTopic == 2

BatchCandidates ==
    { AuthorityCandidate(<<"A", "r", "t", ",", " ", "C", "h", "i", "n", "e", "s", "e">>,
          <<"h", "t", "t", "p", ":", "/", "/", "i", "d", ".", "l", "o", "c", ".", "g", "o", "v", "/", "a", "u", "t", "h", "o", "r", "i", "t", "i", "e", "s", "/", "s", "u", "b", "j", "e", "c", "t", "s", "/", "s", "h", "8", "5", "0", "0", "7", "4", "6", "1">>, <<"L", "C", "S", "H">>, 92),
      AuthorityCandidate(<<"C", "h", "i", "n", "a">>, <<"(", "O", "C", "o", "L", "C", ")", "f", "s", "t", "0", "1", "2", "0", "6", "0", "7", "3">>, <<"f", "a", "s", "t">>, 92),
      AuthorityCandidate(<<"K", "y", "o", "t", "o", ",", " ", "J", "a", "p", "a", "n">>, <<>>, <<"g", "t", "t">>, 92),
      AuthorityCandidate(Missing, <<>>, <<"l", "c", "s", "h">>, 92),
      AuthorityCandidate(<<"C", "h", "i", "n", "a">>, <<>>, Missing, 92) }

CandidateLists ==
    UNION {[1..n -> BatchCandidates] : n \in 0..MaxCandidates}

TopicMatchResult(topic, topic_type, authority_candidates) ==
    [topic                |-> topic,
     topic_type           |-> topic_type,
     authority_candidates |-> authority_candidates]

\* No topic result, one, or two.
TopicMatches ==
    {<<>>}
    \cup {<<TopicMatchResult(<<"C", "h", "i", "n", "e", "s", "e", " ", "a", "r", "t">>, "topical", a)>> :
             a \in CandidateLists}
    \cup {<<TopicMatchResult(<<"C", "h", "i", "n", "e", "s", "e", " ", "a", "r", "t">>, "topical", a),
            TopicMatchResult(<<"C", "h", "i", "n", "a">>, "geographic", b)>> :
             a \in CandidateLists, b \in CandidateLists}

BatchRequests ==
    {[topic_matches |-> tm, max_per_topic |-> m, vocabularies |-> v] :
        tm \in TopicMatches, m \in 1..MaxPerTopic,
        v \in {None, Some(<<<<"l", "c", "s", "h">>>>)}}

BuildFromTopicMatches(generate_explanations, service) ==
    /\ pc = "ready"
    /\ pc' = "done"
    /\ result' = LET raised == batch_raises(request.topic_matches)
                 IN  IF raised = "none"
                     THEN [call                  |-> "build_from_topic_matches",
                           generate_explanations |-> generate_explanations,
                           raised                |-> raised,
                           ret                   |-> build_from_topic_matches(
                                                         request,
                                                         generate_explanations,
                                                         service)]
                     ELSE [call                  |-> "build_from_topic_matches",
                           generate_explanations |-> generate_explanations,
                           raised                |-> raised]
    /\ UNCHANGED <<authority, builder, calls, weaviate, searcher, request>>

InitBatch ==
    /\ authority = AuthorityCandidate(<<>>, <<>>, <<>>, 0)
    /\ pc = "ready"
    /\ result = NoResult
    /\ builder = MARC65XBuilder
    /\ calls = <<>>
    /\ weaviate = <<>>
    /\ searcher = AuthorityVectorSearch
    /\ request \in BatchRequests

NextBatch ==
    \/ BuildFromTopicMatches(FALSE, ServiceFailure)
    \/ BuildFromTopicMatches(TRUE, ServiceFailure)

SpecBatch == InitBatch /\ [][NextBatch]_vars

(***************************************************************************)
(* authority_to_marc65x of the search_to_marc scripts (the conversion loop *)
(* of the enhanced_search endpoint has the same statements).               *)
(***************************************************************************)
\* getattr(authority_candidate, 'subject_type', 'topical')
subject_type_of(candidate) ==
    IF "subject_type" \in DOMAIN candidate THEN candidate.subject_type
    ELSE "topical"

script_tag(subject_type) ==
    IF subject_type = "geographic" THEN "651"
    ELSE IF subject_type = "genre_form" THEN "655"
    ELSE "650"

script_chronological_keywords == << <<"c", "e", "n", "t", "u", "r", "y">>, <<"b", ".", "c", ".">>, <<"a", ".", "d", ".">> >>

script_general_keywords ==
    << <<"h", "i", "s", "t", "o", "r", "y">>, <<"p", "o", "l", "i", "t", "i", "c", "s">>, <<"s", "o", "c", "i", "a", "l">>, <<"c", "o", "n", "d", "i", "t", "i", "o", "n", "s">>, <<"c", "i", "v", "i", "l", "i", "z", "a", "t", "i", "o", "n">> >>

script_is_chronological(part) ==
    \/ AnyKeyword(script_chronological_keywords, lower(part))
    \/ /\ Contains(part, <<"-">>)
       /\ \E i \in DOMAIN part : part[i] \in Digits

\* part[0] of an empty part raises IndexError
script_part_raises(part) ==
    ~script_is_chronological(part) /\ part = <<>>

script_classify(part) ==
    IF script_is_chronological(part) THEN "y"
    ELSE IF part[1] \in UpperLetters
            /\ ~AnyKeyword(script_general_keywords, lower(part))
    THEN "z"
    ELSE "x"

\* heading.split('--') when '--' occurs in the heading, else the heading
script_parts(heading) ==
    IF Contains(heading, <<"-", "-">>) THEN split(heading, <<"-", "-">>) ELSE <<heading>>

\* The exception that leaves authority_to_marc65x, "none" when it returns.
authority_to_marc65x_raises(candidate) ==
    IF candidate.vocabulary = Missing THEN "AttributeError"
    ELSE IF candidate.label = Missing THEN "TypeError"
    ELSE IF \E k \in 2..Len(script_parts(candidate.label)) :
               script_part_raises(script_parts(candidate.label)[k])
    THEN "IndexError"
    ELSE "none"

\* f"{score:.2%}" for a score given in hundredths
format_2pct(hundredths) == decimal(hundredths) \o <<".", "0", "0", "%">>

authority_to_marc65x(candidate) ==
    LET vocab   == lower(candidate.vocabulary)
        parts   == script_parts(candidate.label)
        heading == [k \in DOMAIN parts |->
                      IF k = 1 THEN Subfield("a", parts[k])
                      ELSE Subfield(script_classify(parts[k]), parts[k])]
        with0   == IF candidate.uri # <<>>
                   THEN Append(heading, Subfield("0", candidate.uri))
                   ELSE heading
        with2   == IF vocab # <<"l", "c", "s", "h">>
                   THEN Append(with0, Subfield("2", vocab))
                   ELSE with0
    IN  [tag            |-> script_tag(subject_type_of(candidate)),
         ind1           |-> "_",
         ind2           |-> IF vocab = <<"l", "c", "s", "h">> THEN "0" ELSE "7",
         vocabulary     |-> vocab,
         heading_string |-> candidate.label,
         subfields      |-> with2,
         uri            |-> candidate.uri,
         source_system  |-> "ai_generated",
         score          |-> candidate.score,
         explanation    |-> <<"M", "a", "t", "c", "h", "e", "d", " ", "w", "i", "t", "h", " ", "c", "o", "n", "f", "i", "d", "e", "n", "c", "e", " ">>
                              \o format_2pct(candidate.score)]

SubjectTypes == {"topical", "geographic", "genre_form", "None"}

\* A candidate that carries a subject_type attribute.
TypedCandidate(candidate, subject_type) ==
    [label        |-> candidate.label,
     uri          |-> candidate.uri,
     vocabulary   |-> candidate.vocabulary,
     score        |-> candidate.score,
     subject_type |-> subject_type]

AuthorityToMarc65X ==
    /\ pc = "ready"
    /\ pc' = "done"
    /\ result' = LET raised == authority_to_marc65x_raises(authority)
                 IN  IF raised = "none"
                     THEN [call   |-> "authority_to_marc65x",
                           raised |-> raised,
                           ret    |-> authority_to_marc65x(authority)]
                     ELSE [call   |-> "authority_to_marc65x",
                           raised |-> raised]
    /\ UNCHANGED <<authority, beyond_call>>

ScriptCandidates ==
    {AuthorityCandidate(l, u, v, s) :
        l \in Labels(MaxBuildFragments),
        u \in {<<>>, <<"h", "t", "t", "p", ":", "/", "/", "i", "d", ".", "l", "o", "c", ".", "g", "o", "v", "/", "a", "u", "t", "h", "o", "r", "i", "t", "i", "e", "s", "/", "s", "u", "b", "j", "e", "c", "t", "s", "/", "s", "h", "8", "5", "0", "1", "8", "9", "1", "0">>},
        v \in {<<"l", "c", "s", "h">>, <<"F", "A", "S", "T">>}, s \in Scores}

InitScript ==
    /\ authority \in ScriptCandidates
                       \cup {TypedCandidate(c, t) :
                                c \in ScriptCandidates, t \in SubjectTypes}
    /\ pc = "ready"
    /\ result = NoResult
    /\ BeyondCallAtRest

NextScript == AuthorityToMarc65X

SpecScript == InitScript /\ [][NextScript]_vars

(***************************************************************************)
(* search_and_convert_to_marc: search_authorities over an index whose      *)
(* LCSHSubject objects were stored by the streaming importer, followed by  *)
(* authority_to_marc65x on every candidate returned.                       *)
(***************************************************************************)
genre_keywords ==
    << <<"f", "i", "c", "t", "i", "o", "n">>, <<"p", "o", "e", "t", "r", "y">>, <<"d", "r", "a", "m", "a">>, <<"h", "a", "n", "d", "b", "o", "o", "k", "s">>, <<"m", "a", "n", "u", "a", "l", "s">>,
       <<"d", "i", "c", "t", "i", "o", "n", "a", "r", "i", "e", "s">>, <<"e", "n", "c", "y", "c", "l", "o", "p", "e", "d", "i", "a", "s">>, <<"p", "e", "r", "i", "o", "d", "i", "c", "a", "l", "s">>, <<"n", "e", "w", "s", "p", "a", "p", "e", "r", "s">> >>

place_indicators ==
    << <<"C", "h", "i", "n", "a">>, <<"J", "a", "p", "a", "n">>, <<"U", "n", "i", "t", "e", "d", " ", "S", "t", "a", "t", "e", "s">>, <<"E", "u", "r", "o", "p", "e">>, <<"A", "s", "i", "a">>, <<"A", "f", "r", "i", "c", "a">> >>

detect_subject_type(uri, label) ==
    IF Contains(uri, <<"/", "n", "a", "m", "e", "s", "/">>) \/ Contains(lower(uri), <<"g", "e", "o">>)
    THEN "geographic"
    ELSE IF AnyKeyword(genre_keywords, lower(label)) THEN "genre_form"
    ELSE IF /\ Contains(label, <<" ", "-", "-", " ">>)
            /\ AnyKeyword(place_indicators, split(label, <<" ", "-", "-", " ">>)[1])
    THEN "geographic"
    ELSE "topical"

imported_samples ==
    << [label |-> <<"C", "h", "i", "n", "a", " ", "-", "-", " ", "H", "i", "s", "t", "o", "r", "y">>,
        uri   |-> <<"h", "t", "t", "p", ":", "/", "/", "i", "d", ".", "l", "o", "c", ".", "g", "o", "v", "/", "a", "u", "t", "h", "o", "r", "i", "t", "i", "e", "s", "/", "s", "u", "b", "j", "e", "c", "t", "s", "/", "s", "h", "8", "5", "0", "2", "4", "1", "0", "7">>],
       [label |-> <<"C", "h", "i", "n", "e", "s", "e", " ", "p", "o", "e", "t", "r", "y">>,
        uri   |-> <<"h", "t", "t", "p", ":", "/", "/", "i", "d", ".", "l", "o", "c", ".", "g", "o", "v", "/", "a", "u", "t", "h", "o", "r", "i", "t", "i", "e", "s", "/", "s", "u", "b", "j", "e", "c", "t", "s", "/", "s", "h", "8", "5", "0", "2", "4", "3", "2", "6">>],
       [label |-> <<"C", "a", "l", "l", "i", "g", "r", "a", "p", "h", "y", ",", " ", "C", "h", "i", "n", "e", "s", "e">>,
        uri   |-> <<"h", "t", "t", "p", ":", "/", "/", "i", "d", ".", "l", "o", "c", ".", "g", "o", "v", "/", "a", "u", "t", "h", "o", "r", "i", "t", "i", "e", "s", "/", "s", "u", "b", "j", "e", "c", "t", "s", "/", "s", "h", "8", "5", "0", "1", "8", "9", "0", "9">>] >>

\* The objects of LCSHSubject as the streaming importer stored them.
ImportedObjects(certainties) ==
    [r \in 1..Len(certainties) |->
        LET sample == imported_samples[((r - 1) % Len(imported_samples)) + 1]
        IN  [label        |-> sample.label,
             uri          |-> sample.uri,
             vocabulary   |-> Some(<<"l", "c", "s", "h">>),
             subject_type |-> detect_subject_type(sample.uri, sample.label),
             certainty    |-> certainties[r]]]

ImportedDatabases ==
    {Database(l, f) :
        l \in {None} \cup {Some(ImportedObjects(c)) : c \in RankedCertainties},
        f \in CollectionStates(fast_samples, <<"f", "a", "s", "t">>)}

\* The searches the script and the endpoint make.
ScriptRequests ==
    {[topic           |-> <<"C", "h", "i", "n", "e", "s", "e", " ", "h", "i", "s", "t", "o", "r", "y">>,
      vocabularies    |-> Some(<<<<"l", "c", "s", "h">>, <<"f", "a", "s", "t">>>>),
      limit_per_vocab |-> l,
      min_score       |-> m] : l \in 1..MaxLimit, m \in MinScores}

\* The exception of the first candidate whose conversion raises.
convert_raises(results) ==
    LET failing == {i \in DOMAIN results :
                      authority_to_marc65x_raises(results[i]) # "none"}
    IN  IF failing = {} THEN "none"
        ELSE authority_to_marc65x_raises(
                 results[CHOOSE i \in failing : \A j \in failing : i <= j])

\* connect, search, convert every result, and close the client in the
\* finally clause (which raises AttributeError when there is no client).
SearchAndConvertToMarc(connect_ok, embedding_ok) ==
    /\ pc = "ready"
    /\ pc' = "done"
    /\ LET client  == IF searcher.client = "None" /\ connect_ok
                      THEN "connected"
                      ELSE searcher.client
           results == search_authorities(client, weaviate, request)
           raised  == IF client = "None" THEN "AttributeError"
                      ELSE IF ~embedding_ok THEN "Exception"
                      ELSE convert_raises(results)
       IN  /\ searcher' = [searcher EXCEPT
                             !.client = IF client = "None" THEN "None"
                                        ELSE "closed"]
           /\ result' =
                IF raised = "none"
                THEN [call       |-> "search_and_convert_to_marc",
                      raised     |-> raised,
                      candidates |-> results,
                      ret        |-> [i \in DOMAIN results |->
                                        authority_to_marc65x(results[i])]]
                ELSE [call   |-> "search_and_convert_to_marc",
                      raised |-> raised]
    /\ UNCHANGED <<authority, builder, calls, weaviate, request>>

\* Candidates whose labels the core builder would tag 651 or 655.
ConvertedCandidates ==
    {AuthorityCandidate(l, <<"h", "t", "t", "p", ":", "/", "/", "i", "d", ".", "l", "o", "c", ".", "g", "o", "v", "/", "a", "u", "t", "h", "o", "r", "i", "t", "i", "e", "s", "/", "s", "u", "b", "j", "e", "c", "t", "s", "/", "s", "h", "8", "5", "0", "1", "8", "9", "1", "0">>,
                        <<"l", "c", "s", "h">>, s) :
        l \in {<<"C", "h", "i", "n", "a">>, <<"H", "a", "n", "d", "b", "o", "o", "k", "s", ",", " ", "m", "a", "n", "u", "a", "l", "s", ",", " ", "e", "t", "c", ".">>, <<"A", "r", "t", ",", " ", "C", "h", "i", "n", "e", "s", "e">>},
        s \in Scores}

InitSearchToMarc ==
    /\ authority \in ConvertedCandidates
                       \cup {TypedCandidate(c, t) :
                                c \in ConvertedCandidates, t \in SubjectTypes}
    /\ pc = "ready"
    /\ result = NoResult
    /\ builder = MARC65XBuilder
    /\ calls = <<>>
    /\ weaviate \in ImportedDatabases
    /\ searcher = AuthorityVectorSearch
    /\ request \in ScriptRequests

NextSearchToMarc ==
    \/ AuthorityToMarc65X
    \/ \E connect_ok, embedding_ok \in BOOLEAN :
          SearchAndConvertToMarc(connect_ok, embedding_ok)

SpecSearchToMarc == InitSearchToMarc /\ [][NextSearchToMarc]_vars

(***************************************************************************)
(* The streaming importer: batch_index_authorities inserts the authorities *)
(* that are not yet in LCSHSubject, batch by batch.  Every run is a new    *)
(* process.                                                                *)
(***************************************************************************)
\* An Authority as build_authorities constructs it.
Authority(uri, label) ==
    [uri          |-> uri,
     label        |-> label,
     subject_type |-> detect_subject_type(uri, label),
     vocabulary   |-> <<"l", "c", "s", "h">>]

\* The URIs collected from collection.iterator(); the iterator yields
\* "seen" items and then, if items are left, raises.
existing_uris(collection, seen) == {collection[k].uri : k \in 1..seen}

authority_list(authorities, existing) ==
    SelectSeq(authorities, LAMBDA auth : auth.uri \notin existing)

\* The loop over the batches: the objects inserted and the errors
\* recorded.  The embedding fails for the URIs in "failing", insert_many
\* fails for the batches numbered in "broken".
RECURSIVE index_batches(_, _, _, _, _)
index_batches(list, batch_size, number, failing, broken) ==
    IF list = <<>> THEN [inserted |-> <<>>, errors |-> <<>>]
    ELSE LET n       == IF Len(list) < batch_size THEN Len(list)
                        ELSE batch_size
             batch   == SubSeq(list, 1, n)
             objects == SelectSeq(batch, LAMBDA auth : auth.uri \notin failing)
             failed  == SelectSeq(batch, LAMBDA auth : auth.uri \in failing)
             fails   == objects # <<>> /\ number \in broken
             rest    == index_batches(SubSeq(list, n + 1, Len(list)),
                                      batch_size, number + 1, failing, broken)
         IN  [inserted |-> (IF fails THEN <<>> ELSE objects) \o rest.inserted,
              errors   |->
                  [k \in DOMAIN failed |->
                      [kind |-> "record", uri |-> failed[k].uri]]
                  \o (IF fails
                      THEN <<[kind |-> "batch", number |-> number]>>
                      ELSE <<>>)
                  \o rest.errors]

\* What batch_index_authorities inserts and returns once connected.
batch_index_authorities(collection, req, seen, failing, broken) ==
    LET list    == authority_list(req.authorities,
                                  existing_uris(collection, seen))
        indexed == index_batches(list, req.batch_size, 1, failing, broken)
    IN  IF list = <<>>
        THEN [inserted |-> <<>>, ret |-> <<0, <<>>>>]
        ELSE [inserted |-> indexed.inserted,
              ret      |-> <<Len(list) - Len(indexed.errors),
                             indexed.errors>>]

MaxRecords == 2

MaxRuns == 2

\* batch_size: int = 100
DefaultBatchSize == 100

\* total_batches = (len(authority_list) + batch_size - 1) // batch_size
total_batches(list, batch_size) == (Len(list) + batch_size - 1) \div batch_size

ImportableAuthorities ==
    {Authority(imported_samples[k].uri, imported_samples[k].label) :
        k \in DOMAIN imported_samples}

\* Lists without a repeated URI: the importer's input is a dict keyed by
\* URI, and the collection starts as an earlier import left it.
AuthorityLists(n) ==
    UNION {{list \in [1..m -> ImportableAuthorities] :
               \A i, j \in 1..m : i # j => list[i].uri # list[j].uri} :
           m \in 0..n}

ImportRequests ==
    {[authorities |-> list, batch_size |-> DefaultBatchSize] :
        list \in AuthorityLists(MaxRecords)}

\* One run of the importer.  Without a connection client is None and
\* client.collections raises AttributeError.
BatchIndexAuthorities(connect_ok, seen, failing, broken) ==
    /\ pc \in {"ready", "done"}
    /\ Len(calls) < MaxRuns
    /\ pc' = "done"
    /\ calls' = Append(calls, "batch_index_authorities")
    /\ searcher' = [searcher EXCEPT
                      !.client = IF connect_ok THEN "closed" ELSE "None"]
    /\ IF connect_ok
       THEN LET run == batch_index_authorities(weaviate["LCSHSubject"],
                                               request, seen, failing, broken)
            IN  /\ weaviate' = [weaviate EXCEPT
                                  !["LCSHSubject"] = @ \o run.inserted]
                /\ result' = [call   |-> "batch_index_authorities",
                              raised |-> "none",
                              ret    |-> run.ret]
       ELSE /\ weaviate' = weaviate
            /\ result' = [call   |-> "batch_index_authorities",
                          raised |-> "AttributeError"]
    /\ UNCHANGED <<authority, builder, request>>

InitImport ==
    /\ authority = AuthorityCandidate(<<>>, <<>>, <<>>, 0)
    /\ pc = "ready"
    /\ result = NoResult
    /\ builder = MARC65XBuilder
    /\ calls = <<>>
    /\ weaviate \in {[name \in {"LCSHSubject"} |-> list] :
                         list \in AuthorityLists(1)}
    /\ searcher = AuthorityVectorSearch
    /\ request \in ImportRequests

NextImport ==
    \E connect_ok \in BOOLEAN, seen \in 0..Len(weaviate["LCSHSubject"]),
       failing \in SUBSET {request.authorities[k].uri :
                              k \in DOMAIN request.authorities},
       broken \in SUBSET (1..total_batches(request.authorities,
                                           request.batch_size)) :
        BatchIndexAuthorities(connect_ok, seen, failing, broken)

SpecImport == InitImport /\ [][NextImport]_vars

(***************************************************************************)
(* The legacy builder: MARCBuilder._parse_lcsh_label.                      *)
(***************************************************************************)
\* re.search(pattern, text, re.IGNORECASE): the patterns in lower case,
\* searched in the lowered text.
legacy_chronological_patterns ==
    << <<DigitRun(3, 4)>>,
       <<DigitRun(1, 2), Lit(<<"t", "h", " ", "c", "e", "n", "t", "u", "r", "y">>)>>,
       <<Lit(<<"c", "e", "n", "t", "u", "r", "y">>)>>,
       <<Lit(<<"p", "e", "r", "i", "o", "d">>)>>,
       <<Lit(<<"e", "r", "a">>)>>,
       <<Lit(<<"d", "y", "n", "a", "s", "t", "y">>)>>,
       <<Lit(<<"a", "g", "e">>)>>,
       <<Lit(<<"t", "o", " ">>), DigitPlus>>,
       <<DigitPlus, Lit(<<"-">>), DigitPlus>> >>

legacy_geographic_keywords ==
    << <<"U", "n", "i", "t", "e", "d", " ", "S", "t", "a", "t", "e", "s">>, <<"A", "m", "e", "r", "i", "c", "a">>, <<"C", "h", "i", "n", "a">>, <<"J", "a", "p", "a", "n">>, <<"E", "u", "r", "o", "p", "e">>,
       <<"A", "s", "i", "a">>, <<"A", "f", "r", "i", "c", "a">>, <<"C", "i", "t", "y">>, <<"S", "t", "a", "t", "e">>, <<"P", "r", "o", "v", "i", "n", "c", "e">>, <<"R", "e", "g", "i", "o", "n">>,
       <<"C", "o", "u", "n", "t", "y">>, <<"K", "i", "n", "g", "d", "o", "m">>, <<"R", "e", "p", "u", "b", "l", "i", "c">>, <<"E", "a", "s", "t">>, <<"W", "e", "s", "t">>, <<"N", "o", "r", "t", "h">>,
       <<"S", "o", "u", "t", "h">> >>

is_chronological(text) ==
    AnyPattern(legacy_chronological_patterns, lower(text))

is_geographic(text) ==
    \E k \in DOMAIN legacy_geographic_keywords :
        Contains(lower(text), lower(legacy_geographic_keywords[k]))

\* The loop over parts[1:], from the dict built so far.  An empty
\* subfield_x is falsy, like None.
RECURSIVE process_subdivisions(_, _)
process_subdivisions(parts, so_far) ==
    IF parts = <<>> THEN so_far
    ELSE LET part == Head(parts)
             next ==
               IF is_chronological(part)
               THEN [so_far EXCEPT !.subfield_y = part]
               ELSE IF is_geographic(part)
               THEN [so_far EXCEPT !.subfield_z = part]
               ELSE IF so_far.subfield_x # Missing /\ so_far.subfield_x # <<>>
               THEN [so_far EXCEPT !.subfield_x = @ \o <<" ", "-", "-", " ">> \o part]
               ELSE [so_far EXCEPT !.subfield_x = part]
         IN  process_subdivisions(Tail(parts), next)

parse_lcsh_label(label) ==
    LET pieces == split(label, <<"-", "-">>)
        parts  == [k \in DOMAIN pieces |-> strip(pieces[k])]
    IN  process_subdivisions(Tail(parts),
                             [subfield_a |-> parts[1],
                              subfield_x |-> Missing,
                              subfield_y |-> Missing,
                              subfield_z |-> Missing])

MaxSubdivisions == 2

MainHeadings == { <<"C", "h", "i", "n", "a">>, <<"C", "a", "l", "l", "i", "g", "r", "a", "p", "h", "y", ",", " ", "C", "h", "i", "n", "e", "s", "e">> }

Subdivisions ==
    { <<"H", "i", "s", "t", "o", "r", "y">>, <<"S", "o", "c", "i", "a", "l", " ", "a", "s", "p", "e", "c", "t", "s">>, <<"M", "i", "n", "g", " ", "d", "y", "n", "a", "s", "t", "y", ",", " ", "1", "3", "6", "8", "-", "1", "6", "4", "4">>,
      <<"2", "0", "t", "h", " ", "c", "e", "n", "t", "u", "r", "y">>, <<"J", "a", "p", "a", "n">>, <<"K", "y", "o", "t", "o", " ", "R", "e", "g", "i", "o", "n">> }

Separators == { <<"-", "-">>, <<" ", "-", "-", " ">> }

RECURSIVE JoinWith(_, _)
JoinWith(parts, sep) ==
    IF Len(parts) = 1 THEN parts[1]
    ELSE parts[1] \o sep \o JoinWith(Tail(parts), sep)

LegacyLabels ==
    {JoinWith(<<main>> \o list, sep) :
        main \in MainHeadings, sep \in Separators,
        list \in UNION {[1..n -> Subdivisions] : n \in 0..MaxSubdivisions}}

ParseLcshLabel ==
    /\ pc = "ready"
    /\ pc' = "done"
    /\ result' = [call   |-> "_parse_lcsh_label",
                  raised |-> "none",
                  ret    |-> parse_lcsh_label(request.label)]
    /\ UNCHANGED <<authority, builder, calls, weaviate, searcher, request>>

InitLegacy ==
    /\ authority = AuthorityCandidate(<<>>, <<>>, <<>>, 0)
    /\ pc = "ready"
    /\ result = NoResult
    /\ builder = MARC65XBuilder
    /\ calls = <<>>
    /\ weaviate = <<>>
    /\ searcher = AuthorityVectorSearch
    /\ request \in {[label |-> l] : l \in LegacyLabels}

NextLegacy == ParseLcshLabel

SpecLegacy == InitLegacy /\ [][NextLegacy]_vars

\* build_subject_65x on candidates whose label or vocabulary may be None.
InitLacking ==
    /\ authority \in {AuthorityCandidate(l, u, v, s) :
                         l \in Labels(1) \cup {Missing}, u \in URIs,
                         v \in Vocabularies \cup {Missing}, s \in Scores}
    /\ pc = "ready"
    /\ result = NoResult
    /\ BeyondCallAtRest

NextLacking == \E t \in TopicTypes : BuildSubject65X(t)

SpecLacking == InitLacking /\ [][NextLacking]_vars


(***************************************************************************)
(* Properties.                                                             *)
(***************************************************************************)
Called(name) == pc = "done" /\ result.call = name

\* C1: with the hint "geographic", "genre" or "topical" _determine_tag
\* returns 651, 655, 650 respectively, whatever the label.
C1_HintDecidesTag ==
    Called("_determine_tag") =>
        /\ result.topic_type = "geographic" => result.ret = "651"
        /\ result.topic_type = "genre" => result.ret = "655"
        /\ result.topic_type = "topical" => result.ret = "650"

\* The label "China" (a geographic word) with the hint "topical" gives 650.
C1_Witness ==
    /\ Called("_determine_tag")
    /\ authority.label = <<"C", "h", "i", "n", "a">>
    /\ result.topic_type = "topical"
    /\ result.ret = "650"

IsLcsh(vocabulary) == lower(vocabulary) = <<"l", "c", "s", "h">>

SubfieldsWithCode(subfields, code) ==
    {k \in DOMAIN subfields : subfields[k].code = code}

\* C2: a candidate of vocabulary lcsh (in any letter case) gets ind2 = "0"
\* and no $2 subfield, and ind2 = "0" is given to no other vocabulary.
C2_LcshIndicator ==
    Called("build_subject_65x") =>
        /\ IsLcsh(authority.vocabulary) =>
              /\ result.ret.ind2 = "0"
              /\ SubfieldsWithCode(result.ret.subfields, "2") = {}
        /\ result.ret.ind2 = "0" => IsLcsh(authority.vocabulary)

C2_Witness ==
    /\ Called("build_subject_65x")
    /\ authority.vocabulary = <<"L", "C", "S", "H">>
    /\ authority.uri # <<>>
    /\ result.ret.ind2 = "0"
    /\ Len(result.ret.subfields) >= 3

\* C3: a candidate of any vocabulary other than lcsh gets ind2 = "7" and
\* exactly one $2 subfield, whose value is the lower-cased vocabulary code.
C3_NonLcshHasSource ==
    (Called("build_subject_65x") /\ ~IsLcsh(authority.vocabulary)) =>
        /\ result.ret.ind2 = "7"
        /\ \E k \in DOMAIN result.ret.subfields :
              /\ SubfieldsWithCode(result.ret.subfields, "2") = {k}
              /\ result.ret.subfields[k].value = lower(authority.vocabulary)

MatchesChronological(text) == AnyPattern(chronological_patterns, lower(text))

ContainsGazetteerKeyword(text) == AnyKeyword(geographic_keywords, lower(text))

ContainsFormKeyword(text) == AnyKeyword(form_keywords, lower(text))

\* C4: _classify_subdivision answers y for a chronological match, else z
\* for a gazetteer keyword, else v for a form keyword, else x; the answer is
\* always one of the four codes; the four quoted subdivisions get y, z, v, x.
C4_ClassifyPriority ==
    Called("_classify_subdivision") =>
        LET text == authority.label
            code == result.ret
        IN  /\ code \in {"x", "y", "z", "v"}
            /\ MatchesChronological(text) => code = "y"
            /\ (~MatchesChronological(text) /\ ContainsGazetteerKeyword(text))
                   => code = "z"
            /\ (/\ ~MatchesChronological(text)
                /\ ~ContainsGazetteerKeyword(text)
                /\ ContainsFormKeyword(text)) => code = "v"
            /\ (/\ ~MatchesChronological(text)
                /\ ~ContainsGazetteerKeyword(text)
                /\ ~ContainsFormKeyword(text)) => code = "x"
            /\ text = <<"M", "i", "n", "g", " ", "d", "y", "n", "a", "s", "t", "y", ",", " ", "1", "3", "6", "8", "-", "1", "6", "4", "4">> => code = "y"
            /\ text = <<"C", "h", "i", "n", "a">> => code = "z"
            /\ text = <<"H", "a", "n", "d", "b", "o", "o", "k", "s">> => code = "v"
            /\ text = <<"S", "o", "c", "i", "a", "l", " ", "a", "s", "p", "e", "c", "t", "s">> => code = "x"

\* A subdivision with a gazetteer keyword and a form keyword, no date: z.
C4_Witness ==
    /\ Called("_classify_subdivision")
    /\ ~MatchesChronological(authority.label)
    /\ ContainsGazetteerKeyword(authority.label)
    /\ ContainsFormKeyword(authority.label)
    /\ result.ret = "z"


\* The segments of a label: what lies between the "--" delimiters.
Segments(label) == split(label, <<"-", "-">>)

HasDelimiter(label) == Contains(label, <<"-", "-">>)

\* v is s without its leading and trailing whitespace.
IsTrimOf(v, s) ==
    \E i \in 1..(Len(s) + 1), j \in 0..Len(s) :
        /\ v = SubSeq(s, i, j)
        /\ \A k \in 1..(i - 1) : s[k] \in Whitespace
        /\ \A k \in (j + 1)..Len(s) : s[k] \in Whitespace
        /\ v # <<>> => (v[1] \notin Whitespace /\ v[Len(v)] \notin Whitespace)

\* A label A--B--C in which no segment is empty or blank.
IsCompoundHeading(label) ==
    /\ HasDelimiter(label)
    /\ \A k \in DOMAIN Segments(label) :
          \E i \in DOMAIN Segments(label)[k] :
              Segments(label)[k][i] \notin Whitespace

\* C5 as stated: one subfield per segment in label order, $a with the
\* first segment as its value, then for each later segment S the code
\* _classify_subdivision(S) with the value S itself.
C5_SegmentsVerbatim ==
    (Called("_parse_subdivisions") /\ IsCompoundHeading(authority.label)) =>
        LET segs == Segments(authority.label)
        IN  result.ret =
                [k \in 1..Len(segs) |->
                    IF k = 1
                    THEN Subfield("a", segs[1])
                    ELSE Subfield(classify_subdivision(segs[k]), segs[k])]

\* C5 amended: one subfield per segment in label order; each value is its
\* segment without leading and trailing whitespace; the first code is a,
\* each later code is _classify_subdivision of its segment.
C5_SegmentsTrimmedInOrder ==
    (Called("_parse_subdivisions") /\ HasDelimiter(authority.label)) =>
        LET segs == Segments(authority.label)
            sf   == result.ret
        IN  /\ Len(sf) = Len(segs)
            /\ sf[1].code = "a"
            /\ \A k \in 1..Len(segs) : IsTrimOf(sf[k].value, segs[k])
            /\ \A k \in 2..Len(segs) :
                  /\ sf[k].code = classify_subdivision(segs[k])
                  /\ sf[k].code = classify_subdivision(sf[k].value)

\* Three segments, blanks around the delimiters, two different codes.
C5_Witness ==
    /\ Called("_parse_subdivisions")
    /\ Len(result.ret) = 3
    /\ result.ret[2].code # result.ret[3].code
    /\ result.ret[2].value # Segments(authority.label)[2]
    /\ result.ret[3].value # <<>>

\* C6: the subfields are $a, then codes among x, y, z, v, then $0 with the
\* URI exactly when the URI is non-empty, then $2 with the vocabulary code
\* when there is one to carry (not lcsh, not empty); nothing else.
C6_SubfieldOrder ==
    Called("build_subject_65x") =>
        LET sf    == result.ret.subfields
            vocab == lower(authority.vocabulary)
            tail  == (IF authority.uri # <<>>
                      THEN <<Subfield("0", authority.uri)>> ELSE <<>>)
                     \o (IF vocab \notin { <<"l", "c", "s", "h">>, <<>> }
                         THEN <<Subfield("2", vocab)>> ELSE <<>>)
            h     == Len(sf) - Len(tail)
        IN  /\ h >= 1
            /\ sf[1].code = "a"
            /\ \A k \in 2..h : sf[k].code \in {"x", "y", "z", "v"}
            /\ SubSeq(sf, h + 1, Len(sf)) = tail
            /\ Cardinality(SubfieldsWithCode(sf, "a")) = 1
            /\ Cardinality(SubfieldsWithCode(sf, "0")) <= 1
            /\ Cardinality(SubfieldsWithCode(sf, "2")) <= 1

\* A heading with a subdivision, a URI and a vocabulary that needs $2.
C6_Witness ==
    /\ Called("build_subject_65x")
    /\ Len(result.ret.subfields) >= 4
    /\ result.ret.subfields[Len(result.ret.subfields) - 1].code = "0"
    /\ result.ret.subfields[Len(result.ret.subfields)].code = "2"

\* C7: empty segments are dropped: no subdivision subfield has an empty
\* value, and $a holds the first non-empty segment of the label.
C7_EmptySegmentsDropped ==
    Called("_parse_subdivisions") =>
        LET segs     == Segments(authority.label)
            nonempty == {k \in DOMAIN segs : segs[k] # <<>>}
            first    == CHOOSE k \in nonempty : \A j \in nonempty : k <= j
        IN  /\ \A k \in 2..Len(result.ret) : result.ret[k].value # <<>>
            /\ nonempty # {} => IsTrimOf(result.ret[1].value, segs[first])

\* C8 as stated: a label without "--" gives the single subfield $a whose
\* value is the label character for character.
C8_WholeLabelVerbatim ==
    (Called("_parse_subdivisions") /\ ~HasDelimiter(authority.label)) =>
        result.ret = <<Subfield("a", authority.label)>>

\* C8 amended: a label without "--" gives the single subfield $a whose
\* value is the label without its leading and trailing whitespace.
C8_WholeLabelTrimmed ==
    (Called("_parse_subdivisions") /\ ~HasDelimiter(authority.label)) =>
        /\ Len(result.ret) = 1
        /\ result.ret[1].code = "a"
        /\ IsTrimOf(result.ret[1].value, authority.label)

\* A label without "--" that starts with a blank and is not blank.
C8_Witness ==
    /\ Called("_parse_subdivisions")
    /\ ~HasDelimiter(authority.label)
    /\ authority.label # <<>>
    /\ authority.label[1] \in Whitespace
    /\ result.ret[1].value # <<>>

\* w occurs in s with no word character next to it on either side.
WholeWordIn(s, w) ==
    \E i \in 1..(Len(s) - Len(w) + 1) :
        /\ SubSeq(s, i, i + Len(w) - 1) = w
        /\ i = 1 \/ s[i - 1] \notin WordChars
        /\ i + Len(w) - 1 = Len(s) \/ s[i + Len(w)] \notin WordChars

ChronologicalWords ==
    { <<"c", "e", "n", "t", "u", "r", "y">>, <<"p", "e", "r", "i", "o", "d">>, <<"e", "r", "a">>, <<"d", "y", "n", "a", "s", "t", "y">>, <<"a", "g", "e">> }

\* The chronological subdivisions as C9 describes them.
ChronologicalAsStated(text) ==
    LET t == lower(text)
    IN  \/ \E i \in 1..(Len(t) - 2) : \A j \in i..(i + 2) : t[j] \in Digits
        \/ \E w \in ChronologicalWords : WholeWordIn(t, w)
        \/ \E i \in 1..(Len(t) - 3) :
              SubSeq(t, i, i + 2) = <<"t", "o", " ">> /\ t[i + 3] \in Digits
        \/ \E i \in 2..(Len(t) - 1) :
              t[i - 1] \in Digits /\ t[i] = "-" /\ t[i + 1] \in Digits

DigitFree(text) == \A i \in DOMAIN text : text[i] \notin Digits

\* C9: _classify_subdivision answers y only for a 3-or-4-digit number, one
\* of century, period, era, dynasty, age standing as a word, "to <number>"
\* or a numeric range; in a subdivision without digits, "era" or "age"
\* inside a longer word does not make it chronological.
C9_ChronologicalOnlyAsStated ==
    (/\ Called("_classify_subdivision")
     /\ DigitFree(authority.label)
     /\ result.ret = "y") => ChronologicalAsStated(authority.label)

GeographicWords ==
    { <<"c", "o", "u", "n", "t", "r", "y">>, <<"c", "i", "t", "y">>, <<"r", "e", "g", "i", "o", "n">>, <<"c", "h", "i", "n", "a">>, <<"j", "a", "p", "a", "n">>,
      <<"u", "n", "i", "t", "e", "d", " ", "s", "t", "a", "t", "e", "s">>, <<"e", "u", "r", "o", "p", "e">>, <<"a", "s", "i", "a">>, <<"a", "f", "r", "i", "c", "a">> }

HasGeographicWord(label) ==
    \E w \in GeographicWords : WholeWordIn(lower(label), w)

\* C10: without a hint, _determine_tag returns 651 exactly for the labels
\* that contain one of the nine geographic words as a whole word, also
\* when the label matches a genre pattern; "Asian" is no such label.
C10_GeographicWordGives651 ==
    (Called("_determine_tag") /\ result.topic_type = "None") =>
        /\ result.ret = "651" <=> HasGeographicWord(authority.label)
        /\ authority.label = <<"C", "h", "i", "n", "a", " ", "-", "-", " ", "C", "i", "v", "i", "l", "i", "z", "a", "t", "i", "o", "n">> => result.ret = "651"
        /\ authority.label = <<"A", "s", "i", "a", "n">> => result.ret # "651"

\* A label with a geographic word and a genre pattern, no hint: 651.
C10_Witness ==
    /\ Called("_determine_tag")
    /\ result.topic_type = "None"
    /\ HasGeographicWord(authority.label)
    /\ AnyPattern(genre_patterns, lower(authority.label))
    /\ result.ret = "651"


GenrePrefixes ==
    { <<"c", "o", "n", "f", "e", "r", "e", "n", "c", "e">>, <<"h", "a", "n", "d", "b", "o", "o", "k">>, <<"m", "a", "n", "u", "a", "l">>, <<"e", "s", "s", "a", "y">>, <<"p", "a", "p", "e", "r">>,
      <<"p", "r", "o", "c", "e", "e", "d", "i", "n", "g">>, <<"t", "e", "x", "t", "b", "o", "o", "k">>, <<"g", "u", "i", "d", "e">> }

\* Some word of s begins with p: p occurs with no word character before it.
WordBeginsWith(s, p) ==
    \E i \in 1..(Len(s) - Len(p) + 1) :
        /\ SubSeq(s, i, i + Len(p) - 1) = p
        /\ i = 1 \/ s[i - 1] \notin WordChars

HasGenreWord(label) ==
    \E p \in GenrePrefixes : WordBeginsWith(lower(label), p)

\* C11: without a hint and without a geographic word, _determine_tag
\* returns 655 exactly when a word of the label begins with one of the
\* eight genre prefixes, else 650; for every hint, recognised or not, the
\* result is one of 650, 651, 655.
C11_GenrePrefixGives655 ==
    Called("_determine_tag") =>
        /\ result.ret \in {"650", "651", "655"}
        /\ (result.topic_type = "None" /\ ~HasGeographicWord(authority.label))
              => /\ result.ret = "655" <=> HasGenreWord(authority.label)
                 /\ result.ret = "650" <=> ~HasGenreWord(authority.label)

\* No hint, no geographic word, a word that continues past the prefix
\* ("manuals"): 655.
C11_Witness ==
    /\ Called("_determine_tag")
    /\ result.topic_type = "None"
    /\ ~HasGeographicWord(authority.label)
    /\ WordBeginsWith(lower(authority.label), <<"m", "a", "n", "u", "a", "l">>)
    /\ ~WholeWordIn(lower(authority.label), <<"m", "a", "n", "u", "a", "l">>)
    /\ result.ret = "655"


(***************************************************************************)
(* _extract_authority_id on any URI: a concatenation of at most            *)
(* MaxUriFragments fragments, or one of the URIs the repository quotes.    *)
(***************************************************************************)
MaxUriFragments == 4

UriFragments == { <<"i", "d", ".", "l", "o", "c", ".", "g", "o", "v">>, <<"/">>, <<"f", "s", "t">>, <<"F", "s", "t">>, <<"1">>, <<"x">> }

RECURSIVE UriConcats(_)
UriConcats(n) ==
    IF n = 0
    THEN {<<>>}
    ELSE LET shorter == UriConcats(n - 1)
         IN  shorter \cup {p \o f : p \in shorter, f \in UriFragments}

ExampleURIs ==
    { <<"h", "t", "t", "p", ":", "/", "/", "i", "d", ".", "l", "o", "c", ".", "g", "o", "v", "/", "a", "u", "t", "h", "o", "r", "i", "t", "i", "e", "s", "/", "s", "u", "b", "j", "e", "c", "t", "s", "/", "s", "h", "8", "5", "0", "1", "8", "9", "0", "9">>,
      <<"h", "t", "t", "p", ":", "/", "/", "i", "d", ".", "l", "o", "c", ".", "g", "o", "v", "/", "a", "u", "t", "h", "o", "r", "i", "t", "i", "e", "s", "/", "s", "u", "b", "j", "e", "c", "t", "s", "/", "s", "h", "8", "5", "0", "1", "8", "9", "0", "9", "/">>,
      <<"h", "t", "t", "p", ":", "/", "/", "i", "d", ".", "l", "o", "c", ".", "g", "o", "v", "/", "a", "u", "t", "h", "o", "r", "i", "t", "i", "e", "s", "/", "s", "u", "b", "j", "e", "c", "t", "s", "/", "s", "h", "8", "5", "0", "1", "8", "9", "1", "0">>,
      <<"(", "O", "C", "o", "L", "C", ")", "f", "s", "t", "0", "0", "8", "4", "4", "4", "3", "7">> }

UriInputs == UriConcats(MaxUriFragments) \cup ExampleURIs

ExtractAuthorityId ==
    /\ pc = "ready"
    /\ pc' = "done"
    /\ result' = [call |-> "_extract_authority_id",
                  ret  |-> extract_authority_id(authority.uri)]
    /\ UNCHANGED <<authority, beyond_call>>

InitUri ==
    /\ authority \in {AuthorityCandidate(<<>>, u, <<"l", "c", "s", "h">>, s) :
                         u \in UriInputs, s \in Scores}
    /\ pc = "ready"
    /\ result = NoResult
    /\ BeyondCallAtRest

NextUri == ExtractAuthorityId

SpecUri == InitUri /\ [][NextUri]_vars

\* v is the last "/"-delimited segment of uri once its trailing slashes
\* are gone.
IsLastPathSegment(v, uri) ==
    \E n \in 0..Len(uri) :
        LET stripped == SubSeq(uri, 1, n)
        IN  /\ \A k \in (n + 1)..Len(uri) : uri[k] = "/"
            /\ n > 0 => uri[n] # "/"
            /\ Len(v) <= n
            /\ v = SubSeq(stripped, n - Len(v) + 1, n)
            /\ \A k \in DOMAIN v : v[k] # "/"
            /\ Len(v) < n => stripped[n - Len(v)] = "/"

\* Position i starts a match of fst\d+ in uri, letters in any case.
FstMatchStartsAt(uri, i) ==
    /\ i + 3 <= Len(uri)
    /\ lower(SubSeq(uri, i, i + 2)) = <<"f", "s", "t">>
    /\ uri[i + 3] \in Digits

\* C12: for a URI that contains "id.loc.gov" the result is the last
\* "/"-delimited segment after the trailing slash is stripped, also when
\* the URI contains "fst"; the quoted URI gives sh85018909 with and
\* without a trailing slash.
C12_LocLastSegment ==
    (Called("_extract_authority_id")
        /\ Contains(authority.uri, <<"i", "d", ".", "l", "o", "c", ".", "g", "o", "v">>)) =>
        /\ result.ret.some
        /\ IsLastPathSegment(result.ret.value, authority.uri)
        /\ authority.uri \in
              { <<"h", "t", "t", "p", ":", "/", "/", "i", "d", ".", "l", "o", "c", ".", "g", "o", "v", "/", "a", "u", "t", "h", "o", "r", "i", "t", "i", "e", "s", "/", "s", "u", "b", "j", "e", "c", "t", "s", "/", "s", "h", "8", "5", "0", "1", "8", "9", "0", "9">>,
                <<"h", "t", "t", "p", ":", "/", "/", "i", "d", ".", "l", "o", "c", ".", "g", "o", "v", "/", "a", "u", "t", "h", "o", "r", "i", "t", "i", "e", "s", "/", "s", "u", "b", "j", "e", "c", "t", "s", "/", "s", "h", "8", "5", "0", "1", "8", "9", "0", "9", "/">> }
              => result.ret.value = <<"s", "h", "8", "5", "0", "1", "8", "9", "0", "9">>

\* An id.loc.gov URI with a trailing slash that also holds a FAST number.
C12_Witness ==
    /\ Called("_extract_authority_id")
    /\ Contains(authority.uri, <<"i", "d", ".", "l", "o", "c", ".", "g", "o", "v">>)
    /\ \E i \in DOMAIN authority.uri : FstMatchStartsAt(authority.uri, i)
    /\ authority.uri[Len(authority.uri)] = "/"
    /\ result.ret.some
    /\ ~Contains(result.ret.value, <<"/">>)

\* C13: for a URI without "id.loc.gov": when it contains fst (any case)
\* the result is the leftmost fst-and-digits substring with all the digits
\* that follow, or null when fst is followed by no digit anywhere; every
\* other URI, the empty one included, gives null.
C13_FastNumber ==
    (Called("_extract_authority_id")
        /\ ~Contains(authority.uri, <<"i", "d", ".", "l", "o", "c", ".", "g", "o", "v">>)) =>
        LET uri    == authority.uri
            starts == {i \in DOMAIN uri : FstMatchStartsAt(uri, i)}
        IN  /\ starts = {} => result.ret = None
            /\ starts # {} =>
                  \E i \in starts, j \in DOMAIN uri :
                      /\ \A k \in starts : i <= k
                      /\ result.ret = Some(SubSeq(uri, i, j))
                      /\ \A k \in (i + 3)..j : uri[k] \in Digits
                      /\ j = Len(uri) \/ uri[j + 1] \notin Digits
            /\ uri = <<"(", "O", "C", "o", "L", "C", ")", "f", "s", "t", "0", "0", "8", "4", "4", "4", "3", "7">>
                  => result.ret = Some(<<"f", "s", "t", "0", "0", "8", "4", "4", "4", "3", "7">>)

\* A FAST number written with a capital, after an fst that has no digit.
C13_Witness ==
    /\ Called("_extract_authority_id")
    /\ ~Contains(authority.uri, <<"i", "d", ".", "l", "o", "c", ".", "g", "o", "v">>)
    /\ Len(authority.uri) >= 3
    /\ SubSeq(authority.uri, 1, 3) = <<"f", "s", "t">>
    /\ result.ret.some
    /\ Len(result.ret.value) >= 4
    /\ SubSeq(result.ret.value, 1, 3) = <<"F", "s", "t">>

\* C14: build_subject_65x raises for no label string; a label that is empty
\* or only whitespace gives the heading the single subfield $a = "".
Heading(subject) ==
    SubSeq(subject.subfields, 1,
           Len(subject.subfields)
             - Cardinality({i \in DOMAIN subject.subfields :
                              subject.subfields[i].code \in {"0", "2"}}))

IsBlank(label) == \A i \in DOMAIN label : label[i] \in Whitespace

C14_NeverRaisesOnLabel ==
    Called("build_subject_65x")
    => /\ result.raised = "none"
       /\ IsBlank(authority.label)
            => Heading(result.ret) = <<Subfield("a", <<>>)>>

C14_Witness ==
    /\ Called("build_subject_65x")
    /\ authority.label = <<" ">>
    /\ result.raised = "none"
    /\ Heading(result.ret) = <<Subfield("a", <<>>)>>

\* C15: a candidate without a vocabulary or a label (the value is None, or
\* the vocabulary is the empty string) is refused with an error.
Lacks(candidate) ==
    \/ candidate.label = Missing
    \/ candidate.vocabulary = Missing
    \/ candidate.vocabulary = <<>>

C15_LackingCandidateRejected ==
    Called("build_subject_65x") /\ Lacks(authority)
    => result.raised # "none"

\* C16: the subject has status suggested and, without enrichment, an empty
\* explanation.
C16_SuggestedEmptyExplanation ==
    Called("build_subject_65x")
    => result.ret.status = "suggested" /\ result.ret.explanation = <<>>

\* C16 as the builder behaves: status is suggested and the explanation is
\* "Match score: " followed by the score with two decimals.
C16_SuggestedScoreExplanation ==
    Called("build_subject_65x")
    => /\ result.ret.status = "suggested"
       /\ Len(result.ret.explanation) = Len(<<"M", "a", "t", "c", "h", " ", "s", "c", "o", "r", "e", ":", " ", "0", ".", "0", "0">>)
       /\ SubSeq(result.ret.explanation, 1, 13) = <<"M", "a", "t", "c", "h", " ", "s", "c", "o", "r", "e", ":", " ">>
       /\ authority.score = 92
            => result.ret.explanation = <<"M", "a", "t", "c", "h", " ", "s", "c", "o", "r", "e", ":", " ", "0", ".", "9", "2">>

C16_Witness ==
    /\ Called("build_subject_65x")
    /\ authority.score = 92
    /\ result.ret.explanation = <<"M", "a", "t", "c", "h", " ", "s", "c", "o", "r", "e", ":", " ", "0", ".", "9", "2">>

\* C17: the MARC string of a field is "<tag> <ind1><ind2>", then
\* " $<code> <value>" for each subfield in sequence order, then "."; it keeps
\* the order and number of the subfields and, for a field built from a
\* non-empty label, starts with "<tag> _<ind2> $a ".
Rendered == pc = "rendered" /\ result.call = "render_marc_string"

StartsWith(s, prefix) ==
    Len(s) >= Len(prefix) /\ SubSeq(s, 1, Len(prefix)) = prefix

\* The pieces between the " $" marks of a MARC string without its period.
Pieces(marc) == split(SubSeq(marc, 1, Len(marc) - 1), <<" ", "$">>)

C17_RenderedInOrder ==
    Rendered
    => LET marc   == result.ret
           field  == result.field
           pieces == Pieces(marc)
       IN  /\ marc[Len(marc)] = "."
           /\ Len(pieces) = Len(field.subfields) + 1
           /\ pieces[1] = tag_text(field.tag) \o <<" ">>
                            \o <<field.ind1, field.ind2>>
           /\ \A k \in DOMAIN field.subfields :
                pieces[k + 1] = <<field.subfields[k].code>> \o <<" ">>
                                  \o field.subfields[k].value
           /\ authority.label # <<>>
                => StartsWith(marc, tag_text(field.tag) \o <<" ", "_">>
                                      \o <<field.ind2>> \o <<" ", "$", "a", " ">>)

C17_Witness ==
    /\ Rendered
    /\ authority.label = <<"C", "h", "i", "n", "a", " ", "-", "-", " ", "H", "i", "s", "t", "o", "r", "y">>
    /\ authority.vocabulary = <<"f", "a", "s", "t">>
    /\ authority.uri = <<"(", "O", "C", "o", "L", "C", ")", "f", "s", "t", "0", "0", "8", "4", "4", "4", "3", "7">>
    /\ result.field.tag = "650"
    /\ result.ret = <<"6", "5", "0", " ", "_", "7", " ", "$", "a", " ", "C", "h", "i", "n", "a", " ", "$", "x", " ", "H", "i", "s", "t", "o", "r", "y", " ", "$", "0", " ", "(", "O", "C", "o", "L", "C", ")", "f", "s", "t", "0", "0", "8", "4", "4", "4", "3", "7", " ", "$", "2", " ", "f", "a", "s", "t", ".">>

\* C18: the candidate "Calligraphy, Chinese -- Ming-Qing dynasties,
\* 1368-1912" of lcsh with URI .../sh85018910 and score 0.92, built with the
\* hint "topical", gives 650 _0 with exactly $a "Calligraphy, Chinese",
\* $y "Ming-Qing dynasties, 1368-1912", $0 the URI, and authority_id
\* "sh85018910".
CalligraphyCandidate ==
    AuthorityCandidate(
        <<"C", "a", "l", "l", "i", "g", "r", "a", "p", "h", "y", ",", " ", "C", "h", "i", "n", "e", "s", "e", " ", "-", "-", " ", "M", "i", "n", "g", "-", "Q", "i", "n", "g", " ", "d", "y", "n", "a", "s", "t", "i", "e", "s", ",", " ", "1", "3", "6", "8", "-", "1", "9", "1", "2">>,
        <<"h", "t", "t", "p", ":", "/", "/", "i", "d", ".", "l", "o", "c", ".", "g", "o", "v", "/", "a", "u", "t", "h", "o", "r", "i", "t", "i", "e", "s", "/", "s", "u", "b", "j", "e", "c", "t", "s", "/", "s", "h", "8", "5", "0", "1", "8", "9", "1", "0">>,
        <<"l", "c", "s", "h">>, 92)

C18_CalligraphyEndToEnd ==
    /\ Called("build_subject_65x")
    /\ authority = CalligraphyCandidate
    /\ result.topic_type = "topical"
    => /\ result.raised = "none"
       /\ result.ret.tag = "650"
       /\ result.ret.ind1 = "_"
       /\ result.ret.ind2 = "0"
       /\ result.ret.subfields =
            << Subfield("a", <<"C", "a", "l", "l", "i", "g", "r", "a", "p", "h", "y", ",", " ", "C", "h", "i", "n", "e", "s", "e">>),
               Subfield("y", <<"M", "i", "n", "g", "-", "Q", "i", "n", "g", " ", "d", "y", "n", "a", "s", "t", "i", "e", "s", ",", " ", "1", "3", "6", "8", "-", "1", "9", "1", "2">>),
               Subfield("0", CalligraphyCandidate.uri) >>
       /\ result.ret.authority_id = Some(<<"s", "h", "8", "5", "0", "1", "8", "9", "1", "0">>)

C18_Witness ==
    /\ Called("build_subject_65x")
    /\ authority = CalligraphyCandidate
    /\ result.topic_type = "topical"
    /\ Len(result.ret.subfields) = 3
    /\ result.ret.subfields[2].code = "y"

\* C19: build_subject_65x changes neither its candidate nor the shared
\* tables and singleton fields, and under every interleaving each invocation
\* returns the tag, ind2, subfields and authority_id it returns alone.
SharedStateUnchanged == builder = MARC65XBuilder

ReturnsAsAlone ==
    \A i \in Invocations :
        At(i, "returned")
        => LET alone == build_subject_65x(calls[i].authority,
                                          calls[i].topic_type)
           IN  /\ calls[i].ret.tag = alone.tag
               /\ calls[i].ret.ind2 = alone.ind2
               /\ calls[i].ret.subfields = alone.subfields
               /\ calls[i].ret.authority_id = alone.authority_id

CandidatesUnchanged ==
    \A i \in Invocations :
        ~At(i, "idle") => calls'[i].authority = calls[i].authority

C19_PureUnderInterleaving ==
    /\ [](SharedStateUnchanged /\ ReturnsAsAlone)
    /\ [][CandidatesUnchanged]_vars

\* Two invocations on different candidates are in flight together, one
\* returned after the other had looked up a vocabulary outside the table.
C19_Witness ==
    /\ At(1, "returned")
    /\ calls[1].authority.vocabulary = <<"l", "c", "s", "h">>
    /\ calls[1].ret.ind2 = "0"
    /\ At(2, "parse")
    /\ calls[2].authority.vocabulary = <<"g", "t", "t">>

\* C20: search_authorities returns only candidates whose score is at least
\* min_score, sorted by score in non-increasing order across all the
\* vocabularies searched.
Returned(name) == Called(name) /\ result.raised = "none"

C20_ThresholdAndRanked ==
    Returned("search_authorities")
    => /\ \A i \in DOMAIN result.ret :
            result.ret[i].score >= request.min_score
       /\ \A i, j \in DOMAIN result.ret :
            i < j => result.ret[i].score >= result.ret[j].score

\* Two vocabularies are searched, an object under the threshold is left
\* out, and a candidate of the second vocabulary is ranked ahead of one of
\* the first.
C20_Witness ==
    /\ Returned("search_authorities")
    /\ request.vocabularies = Some(<<<<"l", "c", "s", "h">>, <<"f", "a", "s", "t">>>>)
    /\ request.limit_per_vocab = 2
    /\ "LCSHSubject" \in DOMAIN weaviate
    /\ Len(weaviate["LCSHSubject"]) = 2
    /\ Len(result.ret) = 2
    /\ result.ret[1].vocabulary = <<"f", "a", "s", "t">>
    /\ result.ret[2].vocabulary = <<"l", "c", "s", "h">>
    /\ result.ret[1].score > result.ret[2].score

\* C21: for every vocabulary code, at most limit_per_vocab of the candidates
\* search_authorities returns carry that code, whatever list of codes is
\* requested.
CarryingCode(candidates, code) ==
    {i \in DOMAIN candidates : candidates[i].vocabulary = code}

C21_CappedPerVocabulary ==
    Returned("search_authorities")
    => \A i \in DOMAIN result.ret :
          Cardinality(CarryingCode(result.ret, result.ret[i].vocabulary))
            <= request.limit_per_vocab

\* C23: when the explanation call fails, build_subject_65x still returns,
\* the explanation is the empty string and every other field is that of the
\* build without enrichment.
ExplanationFailed ==
    Called("build_subject_65x") /\ ~result.service.ok

OtherFieldsAsWithoutEnrichment ==
    LET plain == build_subject_65x(authority, result.topic_type)
    IN  /\ result.ret.tag = plain.tag
        /\ result.ret.ind1 = plain.ind1
        /\ result.ret.ind2 = plain.ind2
        /\ result.ret.subfields = plain.subfields
        /\ result.ret.uri = plain.uri
        /\ result.ret.authority_id = plain.authority_id
        /\ result.ret.status = plain.status

C23_FailureLeavesEmptyExplanation ==
    ExplanationFailed
    => /\ result.raised = "none"
       /\ result.ret.explanation = <<>>
       /\ OtherFieldsAsWithoutEnrichment

\* C23 as the builder behaves: the explanation is the fallback sentence
\* naming the topic and the score with two decimals.
C23_FailureGivesFallbackExplanation ==
    ExplanationFailed
    => /\ result.raised = "none"
       /\ result.ret.explanation =
            <<"S", "e", "l", "e", "c", "t", "e", "d", " ", "b", "a", "s", "e", "d", " ", "o", "n", " ", "s", "e", "m", "a", "n", "t", "i", "c", " ", "m", "a", "t", "c", "h", " ", "t", "o", " ", "'">> \o result.topic
              \o <<"'", " ", "w", "i", "t", "h", " ", "c", "o", "n", "f", "i", "d", "e", "n", "c", "e", " ", "0", ".", "9", "2">>
       /\ OtherFieldsAsWithoutEnrichment

C23_Witness ==
    /\ ExplanationFailed
    /\ authority.label = <<"C", "h", "i", "n", "a", " ", "-", "-", " ", "H", "i", "s", "t", "o", "r", "y">>
    /\ result.ret.explanation =
         <<"S", "e", "l", "e", "c", "t", "e", "d", " ", "b", "a", "s", "e", "d", " ", "o", "n", " ", "s", "e", "m", "a", "n", "t", "i", "c", " ", "m", "a", "t", "c", "h", " ", "t", "o", " ", "'", "C", "h", "i", "n", "e", "s", "e", " ", "c", "a", "l", "l", "i", "g", "r", "a", "p", "h", "y", "'", " ", "w", "i", "t", "h", " ", "c", "o", "n", "f", "i", "d", "e", "n", "c", "e", " ", "0", ".", "9", "2">>
    /\ result.ret.subfields[2] = Subfield("x", <<"H", "i", "s", "t", "o", "r", "y">>)

\* C22: per topic result build_from_topic_matches builds only candidates
\* whose lower-cased vocabulary is in the vocabularies list, the first
\* max_per_topic of those that pass the filter, and the result keeps topic
\* order and candidate order.
RequestedVocabularies ==
    IF request.vocabularies.some THEN request.vocabularies.value
    ELSE <<<<"l", "c", "s", "h">>, <<"f", "a", "s", "t">>>>

\* The positions, in a topic's candidate list, of the candidates that pass
\* the vocabulary filter.
Passing(candidates) ==
    {i \in DOMAIN candidates :
        InList(lower(candidates[i].vocabulary), RequestedVocabularies)}

\* Those among the first max_per_topic passing positions.
Selected(candidates) ==
    {i \in Passing(candidates) :
        Cardinality({j \in Passing(candidates) : j <= i})
          <= request.max_per_topic}

\* The selected positions whose build does not raise.
Built(candidates, topic_type) ==
    {i \in Selected(candidates) :
        build_raises(candidates[i], topic_type) = "none"}

\* The k-th smallest member of a set of positions.
Nth(positions, k) ==
    CHOOSE i \in positions : Cardinality({j \in positions : j <= i}) = k

\* What identifies the candidate a returned subject was built from.
Origin(subject) == <<subject.heading_string, subject.uri, subject.vocabulary>>

OriginsOfTopic(topic_result) ==
    LET candidates == topic_result.authority_candidates
        built      == Built(candidates, topic_result.topic_type)
    IN  [k \in 1..Cardinality(built) |->
            LET c == candidates[Nth(built, k)]
            IN  <<c.label, c.uri, lower(c.vocabulary)>>]

RECURSIVE OriginsOfTopics(_)
OriginsOfTopics(topic_matches) ==
    IF topic_matches = <<>> THEN <<>>
    ELSE OriginsOfTopic(Head(topic_matches))
           \o OriginsOfTopics(Tail(topic_matches))

C22_FilterThenTruncate ==
    Returned("build_from_topic_matches")
    => [k \in DOMAIN result.ret |-> Origin(result.ret[k])]
         = OriginsOfTopics(request.topic_matches)

\* The gtt candidate ahead of the lcsh one is filtered out before the
\* truncation to one candidate.
C22_Witness ==
    /\ Returned("build_from_topic_matches")
    /\ request.max_per_topic = 1
    /\ Len(request.topic_matches) = 2
    /\ Len(request.topic_matches[1].authority_candidates) = 2
    /\ request.topic_matches[1].authority_candidates[1].vocabulary = <<"g", "t", "t">>
    /\ request.topic_matches[1].authority_candidates[2].vocabulary = <<"L", "C", "S", "H">>
    /\ Len(request.topic_matches[2].authority_candidates) = 2
    /\ request.topic_matches[2].authority_candidates[1].vocabulary = <<"f", "a", "s", "t">>
    /\ request.topic_matches[2].authority_candidates[2].vocabulary = <<"L", "C", "S", "H">>
    /\ ~request.vocabularies.some
    /\ Len(result.ret) = 2
    /\ result.ret[1].heading_string = <<"A", "r", "t", ",", " ", "C", "h", "i", "n", "e", "s", "e">>
    /\ result.ret[2].heading_string = <<"C", "h", "i", "n", "a">>

\* C28: a candidate whose build fails is skipped, the subjects of all other
\* candidates of the same and of later topics are returned in order, and
\* build_from_topic_matches never raises because of a candidate.
WithoutExplanation(subject) == [subject EXCEPT !.explanation = <<>>]

SubjectsOfTopic(topic_result) ==
    LET candidates == topic_result.authority_candidates
        built      == Built(candidates, topic_result.topic_type)
    IN  [k \in 1..Cardinality(built) |->
            WithoutExplanation(
                build_subject_65x(candidates[Nth(built, k)],
                                  topic_result.topic_type))]

RECURSIVE SubjectsOfTopics(_)
SubjectsOfTopics(topic_matches) ==
    IF topic_matches = <<>> THEN <<>>
    ELSE SubjectsOfTopic(Head(topic_matches))
           \o SubjectsOfTopics(Tail(topic_matches))

OthersReturnedInOrder ==
    [k \in DOMAIN result.ret |-> WithoutExplanation(result.ret[k])]
      = SubjectsOfTopics(request.topic_matches)

C28_FailureNeverAborts ==
    Called("build_from_topic_matches")
    => result.raised = "none" /\ OthersReturnedInOrder

\* C28 as the builder behaves: a build that raises is skipped, but a
\* candidate whose vocabulary is None makes the filter, and the call, raise.
SomeVocabularyMissing ==
    \E t \in DOMAIN request.topic_matches :
        \E i \in DOMAIN request.topic_matches[t].authority_candidates :
            request.topic_matches[t].authority_candidates[i].vocabulary
              = Missing

C28_BuildFailureSkipped ==
    Called("build_from_topic_matches")
    => IF SomeVocabularyMissing
       THEN result.raised = "AttributeError"
       ELSE result.raised = "none" /\ OthersReturnedInOrder

\* The first candidate of the first topic has no label and fails; the
\* second one and the candidate of the second topic are returned.
C28_Witness ==
    /\ Returned("build_from_topic_matches")
    /\ Len(request.topic_matches) = 2
    /\ Len(request.topic_matches[1].authority_candidates) = 2
    /\ request.topic_matches[1].authority_candidates[1].label = Missing
    /\ request.topic_matches[1].authority_candidates[2].label = <<"A", "r", "t", ",", " ", "C", "h", "i", "n", "e", "s", "e">>
    /\ Len(request.topic_matches[2].authority_candidates) = 1
    /\ request.topic_matches[2].authority_candidates[1].vocabulary = <<"f", "a", "s", "t">>
    /\ request.max_per_topic = 2
    /\ ~request.vocabularies.some
    /\ Len(result.ret) = 2
    /\ result.ret[1].heading_string = <<"A", "r", "t", ",", " ", "C", "h", "i", "n", "e", "s", "e">>
    /\ result.ret[2].tag = "651"

\* C24: the script and endpoint variant of the builder produces a field for
\* every label string without raising, also for a label with an empty
\* segment after a "--" delimiter.
C24_ScriptVariantNeverRaises ==
    pc = "done" /\ result.call = "authority_to_marc65x"
    => result.raised = "none"
\* C29: in search_authorities a vocabulary whose query fails (its collection
\* is missing, or there is no client because connect() failed) is skipped:
\* the passing objects of every other requested vocabulary are still
\* returned, nothing is raised, and without a connection the list is empty;
\* search_authorities raises exactly when the embedding call fails.
SearchedVocabularies ==
    IF request.vocabularies.some THEN request.vocabularies.value
    ELSE <<<<"l", "c", "s", "h">>, <<"f", "a", "s", "t">>>>

QueryFails(client, vocab) ==
    \/ client = "None"
    \/ get_collection_for_vocab(vocab) \notin DOMAIN weaviate

\* The objects the query of a vocabulary answers with and that reach the
\* threshold.
Answered(vocab) ==
    LET objects == weaviate[get_collection_for_vocab(vocab)]
    IN  {objects[r] : r \in {k \in DOMAIN objects :
                                /\ k <= request.limit_per_vocab
                                /\ objects[k].certainty.some
                                /\ objects[k].certainty.value
                                     >= request.min_score}}

ReturnedFor(ret, obj) ==
    \E i \in DOMAIN ret :
        /\ ret[i].label = obj.label
        /\ ret[i].uri = obj.uri
        /\ ret[i].vocabulary = obj.vocabulary.value
        /\ ret[i].score = obj.certainty.value

FromAnswer(client, candidate) ==
    \E k \in DOMAIN SearchedVocabularies :
        /\ ~QueryFails(client, SearchedVocabularies[k])
        /\ \E obj \in Answered(SearchedVocabularies[k]) :
              ReturnedFor(<<candidate>>, obj)

C29_FailureIsolated ==
    [][\A connect_ok, embedding_ok \in BOOLEAN :
          SearchAuthorities(connect_ok, embedding_ok)
          => /\ (result'.raised # "none") <=> ~embedding_ok
             /\ embedding_ok
                => /\ searcher'.client = "None" => result'.ret = <<>>
                   /\ \A k \in DOMAIN SearchedVocabularies :
                        ~QueryFails(searcher'.client, SearchedVocabularies[k])
                        => \A obj \in Answered(SearchedVocabularies[k]) :
                              ReturnedFor(result'.ret, obj)
                   /\ \A i \in DOMAIN result'.ret :
                        FromAnswer(searcher'.client, result'.ret[i])]_vars

\* The first requested vocabulary has no collection, the second has one,
\* and the search returned the candidates of the second.
C29_Witness ==
    /\ Returned("search_authorities")
    /\ searcher.client = "connected"
    /\ request.vocabularies = Some(<<<<"l", "c", "s", "h">>, <<"f", "a", "s", "t">>>>)
    /\ "LCSHSubject" \notin DOMAIN weaviate
    /\ "FASTSubject" \in DOMAIN weaviate
    /\ result.ret # <<>>
    /\ \A i \in DOMAIN result.ret : result.ret[i].vocabulary = <<"f", "a", "s", "t">>

\* C30: authority_to_marc65x takes the tag from the candidate's
\* subject_type alone (geographic 651, genre_form 655, anything else or
\* absent 650), whatever the label; search_authorities builds its
\* candidates without a subject_type, so every field produced by a search
\* followed by the conversion has tag 650.
TagOfSubjectType(candidate) ==
    IF "subject_type" \notin DOMAIN candidate THEN "650"
    ELSE CASE candidate.subject_type = "geographic" -> "651"
           [] candidate.subject_type = "genre_form" -> "655"
           [] OTHER -> "650"

C30_SearchPathAlwaysTags650 ==
    /\ Returned("authority_to_marc65x")
       => result.ret.tag = TagOfSubjectType(authority)
    /\ Returned("search_and_convert_to_marc")
       => \A i \in DOMAIN result.ret : result.ret[i].tag = "650"

\* A heading stored in the index as geographic came back from the search
\* and was converted to a 650 field.
C30_Witness ==
    /\ Returned("search_and_convert_to_marc")
    /\ "LCSHSubject" \in DOMAIN weaviate
    /\ \E i \in DOMAIN result.ret :
          \E r \in DOMAIN weaviate["LCSHSubject"] :
              /\ weaviate["LCSHSubject"][r].subject_type = "geographic"
              /\ weaviate["LCSHSubject"][r].label = result.candidates[i].label
              /\ result.candidates[i].vocabulary = <<"l", "c", "s", "h">>
              /\ result.ret[i].tag = "650"

\* C25: batch_index_authorities never inserts an authority whose URI is
\* already in LCSHSubject: the collection holds at most one record per URI
\* after any sequence of runs, and a run over an input whose previous run
\* reported no error inserts nothing and returns (0, []).
OneRecordPerUri(collection) ==
    \A i, j \in DOMAIN collection :
        i # j => collection[i].uri # collection[j].uri

PreviousRunComplete ==
    /\ Called("batch_index_authorities")
    /\ result.raised = "none"
    /\ result.ret[2] = <<>>

C25_NeverInsertsExistingUri ==
    [][/\ OneRecordPerUri(weaviate'["LCSHSubject"])
       /\ (PreviousRunComplete /\ result'.raised = "none")
          => /\ weaviate' = weaviate
             /\ result'.ret = <<0, <<>>>>]_vars

\* C27: the count batch_index_authorities returns is the number of records
\* the run inserted into the collection, whichever embeddings and batch
\* inserts fail.
C27_CountIsNumberInserted ==
    [][result'.raised = "none"
       => result'.ret[1] = Len(weaviate'["LCSHSubject"])
                             - Len(weaviate["LCSHSubject"])]_vars

\* C26: _parse_lcsh_label loses no part of the heading: every segment after
\* the first is subfield_y, subfield_z or one of the segments joined by
\* " -- " in subfield_x, each in exactly one place, also when the label has
\* two or more chronological or two or more geographic subdivisions.
SegmentsAfterFirst(label) ==
    LET pieces == split(label, <<"-", "-">>)
    IN  [k \in 1..(Len(pieces) - 1) |-> strip(pieces[k + 1])]

Places(parsed) ==
    (IF parsed.subfield_x = Missing THEN <<>>
     ELSE split(parsed.subfield_x, <<" ", "-", "-", " ">>))
    \o (IF parsed.subfield_y = Missing THEN <<>> ELSE <<parsed.subfield_y>>)
    \o (IF parsed.subfield_z = Missing THEN <<>> ELSE <<parsed.subfield_z>>)

C26_NoSegmentLost ==
    Called("_parse_lcsh_label")
    => LET segments == SegmentsAfterFirst(request.label)
           places   == Places(result.ret)
       IN  /\ Len(places) = Len(segments)
           /\ \A k \in DOMAIN segments :
                \E p \in DOMAIN places : places[p] = segments[k]

====
